---- MODULE Spec2Model ----
(***************************************************************************)
(* A model of the configuration engine of MCPtastic (src/MCPtastic/        *)
(* device.py): splitCompoundName, setPref and the library helpers they     *)
(* call.  Text is modelled as a sequence of one-character strings so that  *)
(* splitting, case conversion, parsing and formatting are computed, not    *)
(* assumed.  A Python value is a record [k |-> kind, v |-> payload].       *)
(***************************************************************************)
EXTENDS Integers, Sequences, FiniteSets, TLC

(***************************************************************************)
(* Text                                                                    *)
(***************************************************************************)
Lowers == <<"a","b","c","d","e","f","g","h","i","j","k","l","m",
            "n","o","p","q","r","s","t","u","v","w","x","y","z">>
Uppers == <<"A","B","C","D","E","F","G","H","I","J","K","L","M",
            "N","O","P","Q","R","S","T","U","V","W","X","Y","Z">>
Digits == <<"0","1","2","3","4","5","6","7","8","9">>
\* the printable ASCII characters, code points 32..126 in order (Python compares
\* text by code point); code point 96 is spelled out, the lexer rejects it
Ascii ==
  <<
    " ", "!", "\"", "#", "$", "%", "&", "'", "(", ")", "*", "+",
    ",", "-", ".", "/", "0", "1", "2", "3", "4", "5", "6", "7",
    "8", "9", ":", ";", "<", "=", ">", "?", "@", "A", "B", "C",
    "D", "E", "F", "G", "H", "I", "J", "K", "L", "M", "N", "O",
    "P", "Q", "R", "S", "T", "U", "V", "W", "X", "Y", "Z", "[",
    "\\", "]", "^", "_", "grave", "a", "b", "c", "d", "e", "f", "g",
    "h", "i", "j", "k", "l", "m", "n", "o", "p", "q", "r", "s",
    "t", "u", "v", "w", "x", "y", "z", "{", "|", "}", "~"
  >>

RECURSIVE Scan(_, _, _)
Scan(seq, c, i) ==
    IF i > Len(seq) THEN 0 ELSE IF seq[i] = c THEN i ELSE Scan(seq, c, i + 1)

\* the position of the first c in seq, 0 when there is none
IndexOf(seq, c) == Scan(seq, c, 1)

UpperSet == {Uppers[i] : i \in 1..Len(Uppers)}
LowerSet == {Lowers[i] : i \in 1..Len(Lowers)}
DigitSet == {Digits[i] : i \in 1..Len(Digits)}
AsciiSet == {Ascii[i] : i \in 1..Len(Ascii)}
LowerOf == [c \in UpperSet |-> Lowers[IndexOf(Uppers, c)]]
UpperOf == [c \in LowerSet |-> Uppers[IndexOf(Lowers, c)]]
DigitOf == [c \in DigitSet |-> IndexOf(Digits, c) - 1]
\* ord(c) - 31 for a printable character
AsciiIndex == [c \in AsciiSet |-> IndexOf(Ascii, c)]

IsUpper(c) == c \in UpperSet
IsLower(c) == c \in LowerSet
IsDigit(c) == c \in DigitSet
IsAlpha(c) == IsUpper(c) \/ IsLower(c)
LowerCh(c) == IF IsUpper(c) THEN LowerOf[c] ELSE c
UpperCh(c) == IF IsLower(c) THEN UpperOf[c] ELSE c
DigitVal(c) == DigitOf[c]

\* str.lower()
Lower(s) == [i \in 1..Len(s) |-> LowerCh(s[i])]

\* str.startswith(p)
StartsWith(s, p) == Len(s) >= Len(p) /\ SubSeq(s, 1, Len(p)) = p

RECURSIVE Concat(_)
\* "".join(parts)
Concat(parts) ==
    IF parts = <<>> THEN <<>> ELSE Head(parts) \o Concat(Tail(parts))

RECURSIVE Join(_, _)
\* sep.join(parts)
Join(parts, sep) ==
    IF parts = <<>> THEN <<>>
    ELSE IF Len(parts) = 1 THEN parts[1]
    ELSE parts[1] \o sep \o Join(Tail(parts), sep)

RECURSIVE SplitOn(_, _)
\* str.split(c) for a one-character separator: every separator splits, empty
\* segments are kept, and the result is never empty
SplitOn(s, c) ==
    LET i == IndexOf(s, c) IN
    IF i = 0 THEN <<s>>
    ELSE <<SubSeq(s, 1, i - 1)>> \o SplitOn(SubSeq(s, i + 1, Len(s)), c)

RECURSIVE LStrip(_, _)
\* str.lstrip(c)
LStrip(s, c) ==
    IF s # <<>> /\ Head(s) = c THEN LStrip(Tail(s), c) ELSE s

\* Python's order on text: code point by code point, a proper prefix first
TextLess(a, b) ==
    \E i \in 1..(Len(b)) :
        /\ \A j \in 1..(i-1) : j <= Len(a) /\ a[j] = b[j]
        /\ \/ i = Len(a) + 1
           \/ i <= Len(a) /\ AsciiIndex[a[i]] < AsciiIndex[b[i]]

RECURSIVE InsertSorted(_, _)
InsertSorted(x, sorted) ==
    IF sorted = <<>> THEN <<x>>
    ELSE IF TextLess(x, Head(sorted)) THEN <<x>> \o sorted
    ELSE <<Head(sorted)>> \o InsertSorted(x, Tail(sorted))

RECURSIVE Sorted(_)
\* sorted(names): ascending and stable
Sorted(names) ==
    IF names = <<>> THEN <<>>
    ELSE LET n == Len(names) IN
         InsertSorted(names[n], Sorted(SubSeq(names, 1, n - 1)))

(***************************************************************************)
(* meshtastic.util.camel_to_snake and snake_to_camel, as setPref calls     *)
(* them                                                                    *)
(***************************************************************************)
\* "".join(["_" + i.lower() if i.isupper() else i for i in s]).lstrip("_")
camel_to_snake(s) ==
    LStrip(Concat([i \in 1..Len(s) |->
                     IF IsUpper(s[i]) THEN <<"_", LowerCh(s[i])>> ELSE <<s[i]>>]),
           "_")

\* str.title(): the first letter of every run of letters in upper case, the
\* other letters in lower case
Title(s) ==
    [i \in 1..Len(s) |->
        IF i = 1 \/ ~IsAlpha(s[i-1]) THEN UpperCh(s[i]) ELSE LowerCh(s[i])]

\* temp = s.split("_"); temp[0] + "".join(ele.title() for ele in temp[1:])
snake_to_camel(s) ==
    LET temp == SplitOn(s, "_") IN
    temp[1] \o Concat([i \in 1..(Len(temp) - 1) |-> Title(temp[i + 1])])

(***************************************************************************)
(* splitCompoundName                                                       *)
(***************************************************************************)
\* a plausible slip: a name without separator is left as one segment
splitCompoundName_NoDup(comp_name) == SplitOn(comp_name, ".")

splitCompoundName(comp_name) ==
    LET name == SplitOn(comp_name, ".") IN
    IF Len(name) < 2 THEN <<comp_name, comp_name>> ELSE name

(***************************************************************************)
(* Python values.  k is the type; v the payload: text for "str", a         *)
(* sequence of byte values 0..255 for "bytes", an integer for "int", a     *)
(* BOOLEAN for "bool", <<negative, integer part, fraction digits>> for a   *)
(* finite "float" (<<"inf">>, <<"-inf">>, <<"nan">> otherwise), a sequence *)
(* of values for "list".                                                   *)
(***************************************************************************)
NanText == <<"n","a","n">>
InfText == <<"i","n","f">>
VStr(s) == [k |-> "str",   v |-> s]
VBytes(b) == [k |-> "bytes", v |-> b]
VInt(n) == [k |-> "int",   v |-> n]
VBool(b) == [k |-> "bool",  v |-> b]
VFloat(neg, ip, frac) == [k |-> "float", v |-> <<neg, ip, frac>>]
VFloatSpecial(w) == [k |-> "float", v |-> <<w>>]
VList(xs) == [k |-> "list",  v |-> xs]
VNone == [k |-> "none",  v |-> <<>>]
\* what a raising call evaluates to in the model: the exception's class
Raise(exc) == [k |-> "raise", v |-> exc]
IsRaise(x) == x.k = "raise"

IsNumber(x) == x.k \in {"int", "bool", "float"}
IsFiniteFloat(x) == x.k = "float" /\ Len(x.v) = 3
\* whether a number is a whole number, and which
IsWhole(x) == x.k \in {"int", "bool"} \/ (IsFiniteFloat(x) /\ x.v[3] = <<>>)
WholeOf(x) ==
    IF x.k = "int" THEN x.v
    ELSE IF x.k = "bool" THEN (IF x.v THEN 1 ELSE 0)
    ELSE IF x.v[1] THEN 0 - x.v[2] ELSE x.v[2]

\* a == b
PyEq(a, b) ==
    IF IsNumber(a) /\ IsNumber(b)
    THEN IF IsWhole(a) /\ IsWhole(b) THEN WholeOf(a) = WholeOf(b)
         ELSE a.k = "float" /\ b.k = "float" /\ a.v = b.v /\ a.v # <<NanText>>
    ELSE a.k = b.k /\ a.v = b.v

RECURSIVE NatText(_)
\* the decimal digits of a natural number
NatText(n) ==
    IF n < 10 THEN <<Digits[n + 1]>>
    ELSE NatText(n \div 10) \o <<Digits[(n % 10) + 1]>>

IntText(n) == IF n < 0 THEN <<"-">> \o NatText(0 - n) ELSE NatText(n)

HexDigits == Digits \o <<"a","b","c","d","e","f">>

\* repr() of one byte inside b'...'
ByteText(b) ==
    IF b >= 32 /\ b <= 126 /\ Ascii[b - 31] \notin {"'", "\\"}
    THEN <<Ascii[b - 31]>>
    ELSE IF b = 39 THEN <<"\\", "'">>
    ELSE IF b = 92 THEN <<"\\", "\\">>
    ELSE IF b = 9 THEN <<"\\", "t">>
    ELSE IF b = 10 THEN <<"\\", "n">>
    ELSE IF b = 13 THEN <<"\\", "r">>
    ELSE <<"\\", "x", HexDigits[(b \div 16) + 1], HexDigits[(b % 16) + 1]>>

RECURSIVE PyRepr(_)
\* repr(x); text is quoted with ' (the model's texts hold no quote character)
PyRepr(x) ==
    CASE x.k = "str"   -> <<"'">> \o x.v \o <<"'">>
      [] x.k = "bytes" -> <<"b", "'">> \o Concat([i \in 1..Len(x.v) |-> ByteText(x.v[i])])
                          \o <<"'">>
      [] x.k = "int"   -> IntText(x.v)
      [] x.k = "bool"  -> IF x.v THEN <<"T","r","u","e">> ELSE <<"F","a","l","s","e">>
      [] x.k = "none"  -> <<"N","o","n","e">>
      [] x.k = "float" ->
            IF Len(x.v) = 1 THEN x.v[1]
            ELSE (IF x.v[1] THEN <<"-">> ELSE <<>>) \o NatText(x.v[2]) \o <<".">>
                 \o (IF x.v[3] = <<>> THEN <<"0">> ELSE x.v[3])
      [] x.k = "list"  ->
            <<"[">> \o Join([i \in 1..Len(x.v) |-> PyRepr(x.v[i])], <<",", " ">>)
            \o <<"]">>

\* str(x)
PyStr(x) == IF x.k = "str" THEN x.v ELSE PyRepr(x)

(***************************************************************************)
(* meshtastic.util.fromStr, as setPref calls it: empty text is empty       *)
(* bytes, "0x.." is hex, "base64:.." is base64, the words t/true/yes and   *)
(* f/false/no (any case) are booleans, then int(), then float(), and       *)
(* otherwise the text itself.                                              *)
(***************************************************************************)
RECURSIVE StripSpaces(_)
\* str.strip() for the blank the model knows
StripSpaces(s) ==
    IF s # <<>> /\ Head(s) = " " THEN StripSpaces(Tail(s))
    ELSE IF s # <<>> /\ s[Len(s)] = " " THEN StripSpaces(SubSeq(s, 1, Len(s) - 1))
    ELSE s

HasSign(s) == s # <<>> /\ Head(s) \in {"+", "-"}
Unsigned(s) == IF HasSign(s) THEN Tail(s) ELSE s

\* digits, with single underscores allowed between two digits
IsDigitRun(s) ==
    /\ s # <<>>
    /\ \A i \in 1..Len(s) : IsDigit(s[i]) \/ s[i] = "_"
    /\ IsDigit(s[1]) /\ IsDigit(s[Len(s)])
    /\ \A i \in 1..(Len(s) - 1) : ~(s[i] = "_" /\ s[i + 1] = "_")

OnlyDigits(s) == SelectSeq(s, IsDigit)

RECURSIVE NatOf(_)
NatOf(ds) ==
    IF ds = <<>> THEN 0 ELSE NatOf(SubSeq(ds, 1, Len(ds) - 1)) * 10 + DigitVal(ds[Len(ds)])

RECURSIVE RStripZeros(_)
RStripZeros(ds) ==
    IF ds # <<>> /\ ds[Len(ds)] = "0" THEN RStripZeros(SubSeq(ds, 1, Len(ds) - 1)) ELSE ds

\* int(s) succeeds
IsIntText(s) == IsDigitRun(Unsigned(StripSpaces(s)))
IntOf(s) ==
    LET t == StripSpaces(s)
        n == NatOf(OnlyDigits(Unsigned(t)))
    IN  IF HasSign(t) /\ Head(t) = "-" THEN 0 - n ELSE n

\* float(s) succeeds: inf, infinity, nan, or a decimal with a point (exponent
\* notation is outside the modelled texts)
IsSpecialFloatText(u) ==
    Lower(u) \in {InfText, <<"i","n","f","i","n","i","t","y">>, NanText}
IsDecimalText(u) ==
    LET parts == SplitOn(u, ".") IN
    /\ Len(parts) \in {1, 2}
    /\ \A i \in 1..Len(parts) : parts[i] = <<>> \/ IsDigitRun(parts[i])
    /\ \E i \in 1..Len(parts) : parts[i] # <<>>
IsFloatText(s) ==
    LET u == Unsigned(StripSpaces(s)) IN IsSpecialFloatText(u) \/ IsDecimalText(u)
FloatOf(s) ==
    LET t == StripSpaces(s)
        neg == HasSign(t) /\ Head(t) = "-"
        u == Unsigned(t)
        parts == SplitOn(u, ".")
    IN  IF IsSpecialFloatText(u)
        THEN IF Lower(u) = NanText THEN VFloatSpecial(NanText)
             ELSE VFloatSpecial((IF neg THEN <<"-">> ELSE <<>>) \o InfText)
        ELSE VFloat(neg, NatOf(OnlyDigits(parts[1])),
                   IF Len(parts) = 2 THEN RStripZeros(OnlyDigits(parts[2])) ELSE <<>>)

IsHexDigit(c) == IndexOf(HexDigits, LowerCh(c)) > 0
HexVal(c) == IndexOf(HexDigits, LowerCh(c)) - 1

\* bytes.fromhex(h): pairs of hex digits (blanks between pairs are skipped);
\* anything else raises ValueError
FromHex(h) ==
    LET d == SelectSeq(h, LAMBDA c : c # " ") IN
    IF Len(d) % 2 = 0 /\ \A i \in 1..Len(d) : IsHexDigit(d[i])
    THEN VBytes([i \in 1..(Len(d) \div 2) |-> HexVal(d[2*i - 1]) * 16 + HexVal(d[2*i])])
    ELSE Raise("ValueError")

\* str.zfill(2)
ZFill2(s) ==
    IF Len(s) >= 2 THEN s
    ELSE IF s = <<>> THEN <<"0", "0">>
    ELSE IF s[1] \in {"+", "-"} THEN <<s[1], "0">>
    ELSE <<"0", s[1]>>

B64Alphabet == Uppers \o Lowers \o Digits \o <<"+", "/">>
B64Val(c) == IndexOf(B64Alphabet, c) - 1

\* base64.b64decode(t): characters outside the alphabet are discarded, every
\* four characters give three bytes, and a short last group needs its padding
B64Decode(t) ==
    LET d == SelectSeq(t, LAMBDA c : IndexOf(B64Alphabet, c) > 0)
        pads == Len(SelectSeq(t, LAMBDA c : c = "="))
        n == Len(d)
        full == n \div 4
        rest == n % 4
        Quad(g) == B64Val(d[4*g - 3]) * 262144 + B64Val(d[4*g - 2]) * 4096
                   + B64Val(d[4*g - 1]) * 64 + B64Val(d[4*g])
        body == [i \in 1..(3 * full) |->
                    LET g == ((i - 1) \div 3) + 1
                        j == (i - 1) % 3
                    IN  IF j = 0 THEN Quad(g) \div 65536
                        ELSE IF j = 1 THEN (Quad(g) \div 256) % 256
                        ELSE Quad(g) % 256]
        a == B64Val(d[4 * full + 1])
        b == B64Val(d[4 * full + 2])
        c == B64Val(d[4 * full + 3])
    IN  IF rest = 0 THEN VBytes(body)
        ELSE IF rest = 2 /\ pads >= 2 THEN VBytes(body \o <<a * 4 + (b \div 16)>>)
        ELSE IF rest = 3 /\ pads >= 1
             THEN VBytes(body \o <<a * 4 + (b \div 16), (b % 16) * 16 + (c \div 4)>>)
        ELSE Raise("binascii.Error")

Base64Prefix == <<"b","a","s","e","6","4",":">>
TrueWords == {<<"t">>, <<"t","r","u","e">>, <<"y","e","s">>}
FalseWords == {<<"f">>, <<"f","a","l","s","e">>, <<"n","o">>}

fromStr(valstr) ==
    IF Len(valstr) = 0 THEN VBytes(<<>>)
    ELSE IF StartsWith(valstr, <<"0", "x">>)
         THEN FromHex(ZFill2(SubSeq(valstr, 3, Len(valstr))))
    ELSE IF StartsWith(valstr, Base64Prefix)
         THEN B64Decode(SubSeq(valstr, 8, Len(valstr)))
    ELSE IF Lower(valstr) \in TrueWords THEN VBool(TRUE)
    ELSE IF Lower(valstr) \in FalseWords THEN VBool(FALSE)
    ELSE IF IsIntText(valstr) THEN VInt(IntOf(valstr))
    ELSE IF IsFloatText(valstr) THEN FloatOf(valstr)
    ELSE VStr(valstr)

(***************************************************************************)
(* The schema (config.DESCRIPTOR): one descriptor per field, keyed by the  *)
(* field's path from the root message.  kind is "message" or the scalar    *)
(* type; an "enum" field names its table.  The shape follows meshtastic's  *)
(* LocalConfig / LocalModuleConfig (sections holding scalar, enum and      *)
(* repeated fields, a section nested in a section, a scalar beside the     *)
(* sections) and goes one level deeper than they do.                       *)
(***************************************************************************)
n_network == <<"n","e","t","w","o","r","k">>
n_wifi_psk == <<"w","i","f","i","_","p","s","k">>
n_lora == <<"l","o","r","a">>
n_level == <<"l","e","v","e","l">>
n_tx_power == <<"t","x","_","p","o","w","e","r">>
n_ignore_incoming == <<"i","g","n","o","r","e","_","i","n","c","o","m","i","n","g">>
n_mqtt == <<"m","q","t","t">>
n_topics == <<"t","o","p","i","c","s">>
n_map_report_settings == <<"m","a","p","_","r","e","p","o","r","t","_","s","e","t","t","i","n","g","s">>
n_publish_interval_secs == <<"p","u","b","l","i","s","h","_","i","n","t","e","r","v","a","l","_","s","e","c","s">>
n_channels == <<"c","h","a","n","n","e","l","s">>
n_area == <<"a","r","e","a">>
n_zoom == <<"z","o","o","m">>
n_external_notification == <<"e","x","t","e","r","n","a","l","_","n","o","t","i","f","i","c","a","t","i","o","n">>
n_enabled == <<"e","n","a","b","l","e","d">>
n_version == <<"v","e","r","s","i","o","n">>
n_name == <<"n","a","m","e">>
n_pins == <<"p","i","n","s">>
n_security == <<"s","e","c","u","r","i","t","y">>
n_private_key == <<"p","r","i","v","a","t","e","_","k","e","y">>
n_public_key == <<"p","u","b","l","i","c","_","k","e","y">>
n_admin_key == <<"a","d","m","i","n","_","k","e","y">>

Desc(kind, repeated, enum) == [kind |-> kind, repeated |-> repeated, enum |-> enum]
Msg == Desc("message", FALSE, "")
Scalar(kind) == Desc(kind, FALSE, "")
Repeated(kind) == Desc(kind, TRUE, "")

Schema ==
    LET p_mrs == <<n_mqtt, n_map_report_settings>> IN
    (<<n_network>> :> Msg)
    @@ (<<n_network, n_wifi_psk>> :> Scalar("string"))
    @@ (<<n_lora>> :> Msg)
    @@ (<<n_lora, n_level>> :> Desc("enum", FALSE, "Level"))
    @@ (<<n_lora, n_tx_power>> :> Scalar("int32"))
    @@ (<<n_lora, n_ignore_incoming>> :> Repeated("uint32"))
    @@ (<<n_mqtt>> :> Msg)
    @@ (<<n_mqtt, n_topics>> :> Repeated("string"))
    @@ (p_mrs :> Msg)
    @@ (p_mrs \o <<n_publish_interval_secs>> :> Scalar("uint32"))
    @@ (p_mrs \o <<n_channels>> :> Repeated("uint32"))
    @@ (p_mrs \o <<n_area>> :> Msg)
    @@ (p_mrs \o <<n_area, n_zoom>> :> Scalar("uint32"))
    @@ (<<n_external_notification>> :> Msg)
    @@ (<<n_external_notification, n_enabled>> :> Scalar("bool"))
    @@ (<<n_security>> :> Msg)
    @@ (<<n_security, n_private_key>> :> Scalar("bytes"))
    @@ (<<n_security, n_public_key>> :> Scalar("bytes"))
    @@ (<<n_security, n_admin_key>> :> Repeated("bytes"))
    @@ (<<n_version>> :> Scalar("uint32"))
    @@ (<<n_name>> :> Scalar("string"))
    @@ (<<n_pins>> :> Repeated("uint32"))

\* the fields in declaration (field number) order
FieldOrder ==
    << <<n_network>>, <<n_network, n_wifi_psk>>,
       <<n_lora>>, <<n_lora, n_level>>, <<n_lora, n_tx_power>>, <<n_lora, n_ignore_incoming>>,
       <<n_mqtt>>, <<n_mqtt, n_topics>>, <<n_mqtt, n_map_report_settings>>,
       <<n_mqtt, n_map_report_settings, n_publish_interval_secs>>,
       <<n_mqtt, n_map_report_settings, n_channels>>,
       <<n_mqtt, n_map_report_settings, n_area>>,
       <<n_mqtt, n_map_report_settings, n_area, n_zoom>>,
       <<n_external_notification>>, <<n_external_notification, n_enabled>>,
       <<n_security>>, <<n_security, n_private_key>>, <<n_security, n_public_key>>,
       <<n_security, n_admin_key>>,
       <<n_version>>, <<n_name>>, <<n_pins>> >>

\* the enum tables: <<symbol, number>> in declaration order
EnumValues(enum) ==
    IF enum = "Level"
    THEN << <<<<"L","O","W">>, 0>>, <<<<"M","E","D","I","U","M">>, 1>>, <<<<"H","I","G","H">>, 2>> >>
    ELSE << >>

\* enumType.values_by_name.get(symbol): the position of the symbol, 0 for None
EnumIndex(enum, symbol) ==
    LET vs == EnumValues(enum) IN
    IF \E i \in 1..Len(vs) : vs[i][1] = symbol
    THEN CHOOSE i \in 1..Len(vs) : vs[i][1] = symbol
    ELSE 0
EnumNumbers(enum) == {EnumValues(enum)[i][2] : i \in 1..Len(EnumValues(enum))}

Paths == DOMAIN Schema
IsMessage(p) == p = <<>> \/ (p \in Paths /\ Schema[p].kind = "message")
LeafPaths == {p \in Paths : Schema[p].kind # "message"}
FieldName(p) == p[Len(p)]

\* a field descriptor is the path of its field; None is the absent descriptor
NoDesc == [ok |-> FALSE, path |-> <<>>]
SomeDesc(p) == [ok |-> TRUE, path |-> p]
\* <message at path p>.fields_by_name.get(fname)
FieldsByNameGet(p, fname) ==
    IF (p \o <<fname>>) \in Paths THEN SomeDesc(p \o <<fname>>) ELSE NoDesc
\* descriptor.message_type is not None
HasMessageType(d) == d.ok /\ Schema[d.path].kind = "message"

(***************************************************************************)
(* The protobuf object model, as far as setPref uses it.  An object is     *)
(* the path of a field of the tree: a message, a repeated container or a   *)
(* scalar.  The ConfigTree maps every leaf path to its value: a scalar     *)
(* value, or the sequence of elements of a repeated field.                 *)
(***************************************************************************)
\* The model's integers stay within 32 bits signed, so of the range checks of
\* the 32 bit fields only the lower bound of an unsigned field can fail.

\* the text a "string" field decodes from UTF-8 bytes (ASCII only; a byte
\* outside the printable range is kept as one placeholder character)
Utf8Text(bs) ==
    [i \in 1..Len(bs) |-> IF bs[i] >= 32 /\ bs[i] <= 126 THEN Ascii[bs[i] - 31] ELSE "ctl"]

\* the type check of a scalar assignment: the stored value, or the exception
CheckScalar(d, val) ==
    LET kind == Schema[d].kind IN
    CASE kind = "uint32" ->
            IF val.k \in {"int", "bool"}
            THEN IF WholeOf(val) >= 0
                 THEN VInt(WholeOf(val)) ELSE Raise("ValueError")
            ELSE Raise("TypeError")
      [] kind = "int32" ->
            IF val.k \in {"int", "bool"}
            THEN VInt(WholeOf(val))
            ELSE Raise("TypeError")
      [] kind = "bool" ->
            IF val.k \in {"int", "bool"} THEN VBool(WholeOf(val) # 0)
            ELSE Raise("TypeError")
      [] kind = "string" ->
            IF val.k = "str" THEN val
            ELSE IF val.k = "bytes"
                 THEN IF \A i \in 1..Len(val.v) : val.v[i] < 128
                      THEN VStr(Utf8Text(val.v)) ELSE Raise("ValueError")
            ELSE Raise("TypeError")
      [] kind = "bytes" ->
            IF val.k = "bytes" THEN val ELSE Raise("TypeError")
      [] kind = "enum" ->
            \* an open (proto3) enum takes any 32 bit number, and a label by name
            IF val.k \in {"int", "bool"}
            THEN VInt(WholeOf(val))
            ELSE IF val.k = "str"
                 THEN IF EnumIndex(Schema[d].enum, val.v) > 0
                      THEN VInt(EnumValues(Schema[d].enum)[EnumIndex(Schema[d].enum, val.v)][2])
                      ELSE Raise("ValueError")
            ELSE Raise("TypeError")
      [] OTHER -> Raise("TypeError")

\* getattr(obj, fname): the object at the field, or AttributeError
GetAttr(obj, fname) ==
    IF IsRaise(obj) THEN obj
    ELSE IF IsMessage(obj.v) /\ (obj.v \o <<fname>>) \in Paths
         THEN [k |-> "obj", v |-> obj.v \o <<fname>>]
    ELSE Raise("AttributeError")

Obj(p) == [k |-> "obj", v |-> p]

\* setattr(obj, fname, val) on the tree: [exc, tree]; exc is "" when the
\* assignment is done.  Only a non-repeated scalar field of a message can be
\* assigned.
SetAttr(tree, obj, fname, val) ==
    IF IsRaise(obj) THEN [exc |-> obj.v, tree |-> tree]
    ELSE LET p == obj.v \o <<fname>> IN
         IF ~(IsMessage(obj.v) /\ p \in LeafPaths /\ ~Schema[p].repeated)
         THEN [exc |-> "AttributeError", tree |-> tree]
         ELSE LET c == CheckScalar(p, val) IN
              IF IsRaise(c) THEN [exc |-> c.v, tree |-> tree]
              ELSE [exc |-> "", tree |-> [tree EXCEPT ![p] = c]]

\* container[:] = vals, for the repeated container at obj.fname: [exc, tree]
SetSlice(tree, obj, fname, vals) ==
    IF IsRaise(obj) THEN [exc |-> obj.v, tree |-> tree]
    ELSE LET p == obj.v \o <<fname>> IN
         IF ~(IsMessage(obj.v) /\ p \in LeafPaths /\ Schema[p].repeated)
         THEN [exc |-> "AttributeError", tree |-> tree]
         ELSE LET cs == [i \in 1..Len(vals) |-> CheckScalar(p, vals[i])] IN
              IF \E i \in 1..Len(cs) : IsRaise(cs[i])
              THEN [exc |-> cs[CHOOSE i \in 1..Len(cs) :
                                  IsRaise(cs[i]) /\ \A j \in 1..(i-1) : ~IsRaise(cs[j])].v,
                    tree |-> tree]
              ELSE [exc |-> "", tree |-> [tree EXCEPT ![p] = cs]]

(***************************************************************************)
(* setPref(config, comp_name, raw_val), step by step.  config is the root  *)
(* message, Obj(<<>>).  Each step is an operator that is handed what the   *)
(* steps before it computed.                                               *)
(***************************************************************************)
Config == Obj(<<>>)

\* the object the code takes the sub-object of a reached message from: always
\* config, the root, whatever config_part is
WalkBase(config, config_part) == config

\* one pass of the loop body, given the sub-object it fetched
RECURSIVE WalkParts(_, _, _, _)
WalkStep(name, i, config_part, config_type, part) ==
    IF IsRaise(part) \/ ~HasMessageType(config_type)
    THEN [exc |-> "AttributeError", config_part |-> config_part,
          config_type |-> config_type]
    ELSE WalkParts(name, i + 1, part,
                   FieldsByNameGet(config_type.path, camel_to_snake(name[i])))

\* for name_part in name[1:-1]: config_part = getattr(config, config_type.name);
\* config_type = config_type.message_type.fields_by_name.get(part_snake_name)
\* (i is the 1-based position of name_part)
WalkParts(name, i, config_part, config_type) ==
    IF i > Len(name) - 1
    THEN [exc |-> "", config_part |-> config_part, config_type |-> config_type]
    ELSE WalkStep(name, i, config_part, config_type,
                  IF config_type.ok
                  THEN GetAttr(WalkBase(Config, config_part), FieldName(config_type.path))
                  ELSE Raise("AttributeError"))

\* the first segment is looked up as it is written
FirstSegment(seg) == seg

\* lines 257-262: pref, from the config_type the walk ended at
PrefOf(config_type, snake_name) ==
    IF HasMessageType(config_type)
    THEN FieldsByNameGet(config_type.path, snake_name)
    ELSE IF config_type.ok THEN config_type
    ELSE NoDesc

Resolved(w, snake_name) ==
    [exc |-> w.exc, config_part |-> w.config_part, config_type |-> w.config_type,
     pref |-> PrefOf(w.config_type, snake_name)]

ResolveFrom(name, first) ==
    Resolved(IF HasMessageType(first)
             THEN WalkParts(name, 2, Config, first)
             ELSE [exc |-> "", config_part |-> Config, config_type |-> first],
             camel_to_snake(name[Len(name)]))

\* lines 249-262: config_part, config_type and pref for the split name
Resolve(name) == ResolveFrom(name, FieldsByNameGet(<<>>, FirstSegment(name[1])))

\* lines 267-270: a textual raw value is parsed, any other is taken as it is
RawToVal(raw_val) == IF raw_val.k = "str" THEN fromStr(raw_val.v) ELSE raw_val

MinPskLen == 8
\* line 272
WifiPskTooShort(snake_name, raw_val) ==
    snake_name = n_wifi_psk /\ Len(PyStr(raw_val)) < MinPskLen

WifiPskWarning == <<"W","a","r","n","i","n","g",":"," ","n","e","t","w","o","r","k",".","w","i","f","i","_","p","s","k"," ","m","u","s","t"," ","b","e"," ","8"," ","o","r"," ","m","o","r","e"," ","c","h","a","r","a","c","t","e","r","s",".">>

\* the enum table's symbol names, in declaration order
EnumNames(enum) == [i \in 1..Len(EnumValues(enum)) |-> EnumValues(enum)[i][1]]

\* a plausible slip: the symbol numbered 0 is taken for a missing one
EnumFound_NonZeroOnly(enum, idx) == idx > 0 /\ EnumValues(enum)[idx][2] # 0

\* whether a descriptor found by values_by_name.get counts as found: it is an
\* object, true whatever its number
EnumFound(enum, idx) == idx > 0

\* the order in which the choices are listed
ChoiceOrder(names) == Sorted(names)

Indented(names) == [i \in 1..Len(names) |-> <<" "," "," "," ">> \o names[i]]

\* lines 284-293: what is printed for an unknown symbol
EnumDiagnostic(name, uni_name, val, enum) ==
    << name[1] \o <<".">> \o uni_name \o <<" ","d","o","e","s"," ","n","o","t"," ","h","a","v","e"," ","a","n"," ","e","n","u","m"," ","c","a","l","l","e","d"," ">> \o PyStr(val)
         \o <<","," ","s","o"," ","y","o","u"," ","c","a","n"," ","n","o","t"," ","s","e","t"," ","i","t",".">>,
       <<"C","h","o","i","c","e","s"," ","i","n"," ","s","o","r","t","e","d"," ","o","r","d","e","r"," ","a","r","e",":">> >>
    \o Indented(ChoiceOrder(EnumNames(enum)))

EnumLookupAt(name, uni_name, enum, val, idx) ==
    IF EnumFound(enum, idx)
    THEN [rejected |-> FALSE, val |-> VInt(EnumValues(enum)[idx][2]), out |-> <<>>]
    ELSE [rejected |-> TRUE, val |-> val,
          out |-> EnumDiagnostic(name, uni_name, val, enum)]

\* lines 276-294: [rejected, val, out]
EnumLookup(name, uni_name, enum, val) ==
    IF enum # "" /\ val.k = "str"
    THEN EnumLookupAt(name, uni_name, enum, val, EnumIndex(enum, val.v))
    ELSE [rejected |-> FALSE, val |-> val, out |-> <<>>]

\* what the retry after a TypeError assigns: the text of the parsed value
RetryText(raw_val, val) == VStr(PyStr(val))

\* lines 304-307: the retry, given the outcome of the first attempt
RetryOnTypeError(tree, r, raw_val, val, first) ==
    IF first.exc = "TypeError"
    THEN SetAttr(tree, GetAttr(r.config_part, FieldName(r.config_type.path)),
                 FieldName(r.pref.path), RetryText(raw_val, val))
    ELSE first

\* lines 297-307: the non-repeated assignment, with its retry; [exc, tree]
AssignScalar(tree, r, snake_name, raw_val, val) ==
    RetryOnTypeError(tree, r, raw_val, val,
        IF HasMessageType(r.config_type)
        THEN SetAttr(tree, GetAttr(r.config_part, FieldName(r.config_type.path)),
                     FieldName(r.pref.path), val)
        ELSE SetAttr(tree, r.config_part, snake_name, val))

\* the element-wise parse of a sequence: fromStr takes text only (len() of
\* anything else raises TypeError, and so does a failed hex or base64 decode)
ParseElement(x) == IF x.k = "str" THEN fromStr(x.v) ELSE Raise("TypeError")

\* the first exception among parsed elements, "" when there is none
FirstRaise(xs) ==
    IF \E i \in 1..Len(xs) : IsRaise(xs[i])
    THEN xs[CHOOSE i \in 1..Len(xs) : IsRaise(xs[i]) /\ \A j \in 1..(i-1) : ~IsRaise(xs[j])].v
    ELSE ""

\* the object whose field holds the repeated container: the code takes the
\* sub-object from config, the root
RepeatedHolder(r) ==
    GetAttr(WalkBase(Config, r.config_part), FieldName(r.config_type.path))

\* what a sequence replaces: nothing of the previous contents is kept
ReplaceWith(old, new_vals) == new_vals

AssignListTo(tree, holder, pname, new_vals) ==
    IF FirstRaise(new_vals) # ""
    THEN [exc |-> FirstRaise(new_vals), tree |-> tree]
    ELSE IF IsRaise(GetAttr(holder, pname))
    THEN [exc |-> "AttributeError", tree |-> tree]
    ELSE SetSlice(tree, holder, pname, ReplaceWith(tree[holder.v \o <<pname>>], new_vals))

\* lines 308-311: [exc, tree]
AssignList(tree, r, val) ==
    AssignListTo(tree, RepeatedHolder(r), FieldName(r.pref.path),
                 [i \in 1..Len(val.v) |-> ParseElement(val.v[i])])

\* x not in [0, "", b""]
NotSentinel(x) ==
    ~(PyEq(x, VInt(0)) \/ PyEq(x, VStr(<<>>)) \/ PyEq(x, VBytes(<<>>)))

\* val == 0
IsZero(val) == PyEq(val, VInt(0))

\* what the elements of a cleared container are
Cleared(old) == <<>>

\* the list an appended value is added to
AppendTo(cur_vals, val) == Append(cur_vals, val)

WithOut(s, line) == [exc |-> s.exc, tree |-> s.tree, out |-> <<line>>]

\* whether obj.fname is a repeated container
IsContainer(obj, fname) ==
    ~IsRaise(GetAttr(obj, fname)) /\ Schema[obj.v \o <<fname>>].repeated

\* lines 314-317
ClearRepeated(tree, holder, pname, line) ==
    IF ~IsContainer(holder, pname)
    THEN [exc |-> "AttributeError", tree |-> tree, out |-> <<line>>]
    ELSE [exc |-> "", tree |-> [tree EXCEPT ![holder.v \o <<pname>>] = Cleared(@)],
          out |-> <<line>>]

\* lines 318-322
AppendRepeated(tree, holder, pname, val, line) ==
    IF ~IsContainer(holder, pname)
    THEN [exc |-> "AttributeError", tree |-> tree, out |-> <<line>>]
    ELSE WithOut(SetSlice(tree, holder, pname,
                          AppendTo(SelectSeq(tree[holder.v \o <<pname>>], NotSentinel),
                                   val)),
                 line)

AssignRepeatedScalarTo(tree, holder, pname, raw_val, val) ==
    IF IsRaise(holder)
    THEN [exc |-> "AttributeError", tree |-> tree, out |-> <<>>]
    ELSE IF IsZero(val)
    THEN ClearRepeated(tree, holder, pname, <<"C","l","e","a","r","i","n","g"," ">> \o pname \o <<" ","l","i","s","t">>)
    ELSE AppendRepeated(tree, holder, pname, val,
                        <<"A","d","d","i","n","g"," ","'">> \o PyStr(raw_val) \o <<"'"," ","t","o"," ","t","h","e"," ">> \o pname \o <<" ","l","i","s","t">>)

\* lines 312-323: [exc, tree, out]
AssignRepeatedScalar(tree, r, raw_val, val) ==
    AssignRepeatedScalarTo(tree, RepeatedHolder(r), FieldName(r.pref.path), raw_val, val)

\* line 325
ConfirmPrefix(name, r) ==
    IF HasMessageType(r.config_type)
    THEN Join(SubSeq(name, 1, Len(name) - 1), <<".">>) \o <<".">>
    ELSE <<>>

\* a plausible slip: the coerced value is printed, not the raw one
ConfirmLine_Coerced(name, r, uni_name, raw_val) ==
    <<"S","e","t"," ">> \o ConfirmPrefix(name, r) \o uni_name \o <<" ","t","o"," ">>
        \o PyStr(RawToVal(raw_val))

\* lines 325-326: the confirmation
ConfirmLine(name, r, uni_name, raw_val) ==
    <<"S","e","t"," ">> \o ConfirmPrefix(name, r) \o uni_name \o <<" ","t","o"," ">> \o PyStr(raw_val)

\* the result of a call: ret is "True", "False" or the class of the exception
\* that leaves the call; tree is the ConfigTree after it; out the lines
\* printed; pref the path of the resolved field (<<>> when none); branch the
\* path taken through the function
Result(ret, tree, out, pref, branch) ==
    [ret |-> ret, tree |-> tree, out |-> out, pref |-> pref, branch |-> branch]

\* the end of a branch that assigned: the exception, or True with the lines
Assigned(a, out, pref, branch) ==
    IF a.exc # "" THEN Result(a.exc, a.tree, <<>>, pref, branch)
    ELSE Result("True", a.tree, out, pref, branch)

\* the end of the clear and append branches, which print before they assign
AssignedRepeated(a, pref, branch) ==
    Result(IF a.exc # "" THEN a.exc ELSE "True", a.tree, a.out, pref, branch)

\* lines 296-328, given the value to assign
setPref_assign(tree, name, snake_name, uni_name, r, raw_val, val) ==
    IF ~Schema[r.pref.path].repeated
    THEN Assigned(AssignScalar(tree, r, snake_name, raw_val, val),
                  <<ConfirmLine(name, r, uni_name, raw_val)>>, r.pref.path, "scalar")
    ELSE IF val.k = "list"
    THEN Assigned(AssignList(tree, r, val),
                  <<ConfirmLine(name, r, uni_name, raw_val)>>, r.pref.path, "list")
    ELSE AssignedRepeated(AssignRepeatedScalar(tree, r, raw_val, val), r.pref.path,
                          IF IsZero(val) THEN "clear" ELSE "append")

\* a variant that resets the field it rejects a symbol for
setPref_enum_Reset(tree, name, snake_name, uni_name, r, raw_val, e) ==
    IF e.rejected
    THEN Result("False", [tree EXCEPT ![r.pref.path] = VInt(0)], e.out, r.pref.path, "enum")
    ELSE setPref_assign(tree, name, snake_name, uni_name, r, raw_val, e.val)

\* lines 276-328, given the outcome of the enum lookup
setPref_enum(tree, name, snake_name, uni_name, r, raw_val, e) ==
    IF e.rejected THEN Result("False", tree, e.out, r.pref.path, "enum")
    ELSE setPref_assign(tree, name, snake_name, uni_name, r, raw_val, e.val)

\* lines 272-328, given the parsed value
setPref_coerced(tree, name, snake_name, uni_name, r, raw_val, val) ==
    IF IsRaise(val) THEN Result(val.v, tree, <<>>, r.pref.path, "parse")
    ELSE IF WifiPskTooShort(snake_name, raw_val)
    THEN Result("False", tree, <<WifiPskWarning>>, r.pref.path, "psk")
    ELSE setPref_enum(tree, name, snake_name, uni_name, r, raw_val,
                      EnumLookup(name, uni_name, Schema[r.pref.path].enum, val))

\* lines 264-328, given the resolution
setPref_resolved(tree, name, snake_name, uni_name, r, raw_val) ==
    IF r.exc # "" THEN Result(r.exc, tree, <<>>, <<>>, "resolve")
    ELSE IF ~r.pref.ok \/ ~r.config_type.ok
    THEN Result("False", tree, <<>>, <<>>, "notfound")
    ELSE setPref_coerced(tree, name, snake_name, uni_name, r, raw_val, RawToVal(raw_val))

\* line 247
UniName(camel_case, leaf) ==
    IF camel_case THEN snake_to_camel(leaf) ELSE camel_to_snake(leaf)

\* lines 245-328, given the split name
setPref_named(tree, camel_case, name, raw_val) ==
    setPref_resolved(tree, name, camel_to_snake(name[Len(name)]),
                     UniName(camel_case, name[Len(name)]), Resolve(name), raw_val)

setPref(tree, camel_case, comp_name, raw_val) ==
    setPref_named(tree, camel_case, splitCompoundName(comp_name), raw_val)

(***************************************************************************)
(* The state machine: a ConfigTree, the naming flag, and setPref called    *)
(* with names and raw values drawn from the sets below.  A call is one     *)
(* step; the caller then takes the result and is ready for the next call.  *)
(***************************************************************************)
VARIABLES
    tree,        \* the live ConfigTree: leaf path -> value
    camel_case,  \* mt_config.camel_case
    pc,          \* "idle", or "called" when a call has just returned
    calls,       \* the number of calls made
    last,        \* the last call: its arguments, its result, the tree before it
    node,        \* the rest of the device session the tools read
    exported,    \* the document of the last export, and the number of exports
    manager,     \* the InterfaceManager and the interfaces it created
    db           \* the rows of the nodes table of the database

vars == <<tree, camel_case, pc, calls, last, node, exported, manager, db>>

\* the variables that setPref and traverseConfig have no access to
others == <<node, exported, manager, db>>

\* the number of setPref calls of one run
MaxCalls == 2

\* the proto3 default of a field
DefaultOf(p) ==
    IF Schema[p].repeated THEN <<>>
    ELSE CASE Schema[p].kind = "string" -> VStr(<<>>)
           [] Schema[p].kind = "bytes" -> VBytes(<<>>)
           [] Schema[p].kind = "bool" -> VBool(FALSE)
           [] OTHER -> VInt(0)

DefaultTree == [p \in LeafPaths |-> DefaultOf(p)]

\* a tree as read from a configured device
DeviceTree ==
    [DefaultTree EXCEPT
        ![<<n_network, n_wifi_psk>>] = VStr(<<"o","l","d","s","e","c","r","e","t">>),
        ![<<n_lora, n_level>>] = VInt(2),
        ![<<n_lora, n_ignore_incoming>>] = <<VInt(7), VInt(0), VInt(9)>>,
        ![<<n_mqtt, n_topics>>] = <<VStr(<<"a">>), VStr(<<"b">>)>>,
        ![<<n_mqtt, n_map_report_settings, n_channels>>] = <<VInt(4)>>,
        ![<<n_version>>] = VInt(23)]

InitTrees == {DefaultTree, DeviceTree}

CallsOf(names, raws) == {[name |-> n, raw |-> r] : n \in names, r \in raws}

L12 == VList(<<VStr(<<"1">>), VStr(<<"2">>)>>)
L50 == VList(<<VStr(<<"5">>), VStr(<<"0">>)>>)
Lab == VList(<<VStr(<<"a">>), VStr(<<"b">>)>>)
Leb == VList(<<VStr(<<>>), VStr(<<"b">>)>>)
Lints == VList(<<VInt(1), VInt(2)>>)

\* the calls of a run: compound names that resolve to a field, in both
\* casings, with raw values of every shape the branch they reach tells apart
FoundCalls ==
    CallsOf({<<"n","e","t","w","o","r","k",".","w","i","f","i","_","p","s","k">>, <<"n","e","t","w","o","r","k",".","w","i","f","i","P","s","k">>},
            {VStr(<<"p","a","s","s","w","o","r","d","1">>), VStr(<<"s","h","o","r","t">>), VStr(<<"0","0","0","0","0","0","0","0">>), VStr(<<"l","o","n","g","e","n","o","u","g","h">>),
             VStr(<<"1","2","3","4","5","6","7">>), VStr(<<>>), VInt(5), VInt(12345678)})
    \cup CallsOf({<<"l","o","r","a",".","l","e","v","e","l">>},
            {VStr(<<"M","E","D","I","U","M">>), VStr(<<"L","O","W">>), VStr(<<"H","I","G","H">>), VStr(<<"B","O","G","U","S">>), VStr(<<"L","o","w">>),
             VStr(<<"7">>), VStr(<<"0">>), VStr(<<"t","r","u","e">>), VStr(<<"1",".","5">>), VStr(<<>>),
             VInt(1), VInt(7)})
    \cup CallsOf({<<"l","o","r","a",".","t","x","_","p","o","w","e","r">>, <<"l","o","r","a",".","t","x","P","o","w","e","r">>},
            {VStr(<<"5">>), VStr(<<"-","1">>), VStr(<<"c">>), VInt(5), VBool(TRUE)})
    \cup CallsOf({<<"l","o","r","a",".","i","g","n","o","r","e","_","i","n","c","o","m","i","n","g">>, <<"l","o","r","a",".","i","g","n","o","r","e","I","n","c","o","m","i","n","g">>},
            {VStr(<<"0">>), VStr(<<"5">>), VStr(<<"-","1">>), VStr(<<"c">>), VStr(<<"f","a","l","s","e">>), VInt(0),
             VInt(5), VBool(FALSE), VList(<<>>), L12, L50, Lab, Lints})
    \cup CallsOf({<<"m","q","t","t",".","t","o","p","i","c","s">>},
            {VStr(<<"c">>), VStr(<<"b">>), VStr(<<"0">>), VStr(<<"5">>), VStr(<<>>), VInt(0),
             VList(<<>>), Lab, Leb})
    \cup CallsOf({<<"m","q","t","t",".","m","a","p","_","r","e","p","o","r","t","_","s","e","t","t","i","n","g","s",".","p","u","b","l","i","s","h","_","i","n","t","e","r","v","a","l","_","s","e","c","s">>,
                  <<"m","q","t","t",".","m","a","p","R","e","p","o","r","t","S","e","t","t","i","n","g","s",".","p","u","b","l","i","s","h","I","n","t","e","r","v","a","l","S","e","c","s">>},
            {VStr(<<"5">>), VStr(<<"c">>), VInt(5)})
    \cup CallsOf({<<"m","q","t","t",".","m","a","p","_","r","e","p","o","r","t","_","s","e","t","t","i","n","g","s",".","c","h","a","n","n","e","l","s">>},
            {VStr(<<"5">>), VStr(<<"0">>), L12})
    \cup CallsOf({<<"m","q","t","t",".","m","a","p","_","r","e","p","o","r","t","_","s","e","t","t","i","n","g","s",".","a","r","e","a",".","z","o","o","m">>},
            {VStr(<<"5">>), VInt(5)})
    \cup CallsOf({<<"e","x","t","e","r","n","a","l","_","n","o","t","i","f","i","c","a","t","i","o","n",".","e","n","a","b","l","e","d">>, <<"e","x","t","e","r","n","a","l","N","o","t","i","f","i","c","a","t","i","o","n",".","e","n","a","b","l","e","d">>},
            {VStr(<<"t","r","u","e">>), VStr(<<"5">>), VInt(0), VBool(TRUE)})
    \cup CallsOf({<<"v","e","r","s","i","o","n">>}, {VStr(<<"5">>), VStr(<<"c">>), VInt(5)})
    \cup CallsOf({<<"n","a","m","e">>}, {VStr(<<"5">>), VStr(<<"c">>), VStr(<<"l","o","n","g","e","n","o","u","g","h">>)})
    \cup CallsOf({<<"p","i","n","s">>}, {VStr(<<"5">>), VStr(<<"0">>), L12})

\* compound names with an absent or non-message segment
OtherCalls ==
    CallsOf({<<>>, <<"w","i","f","i","_","p","s","k">>, <<"b","o","g","u","s",".","l","e","v","e","l">>, <<"l","o","r","a",".","b","o","g","u","s">>, <<"m","q","t","t",".","b","o","g","u","s",".","z","o","o","m">>,
             <<"m","q","t","t",".","b","o","g","u","s",".","a","r","e","a",".","z","o","o","m">>, <<"m","q","t","t",".","t","o","p","i","c","s",".","z","o","o","m">>, <<"l","o","r","a",".","t","x","_","p","o","w","e","r",".","l","e","v","e","l">>,
             <<"l","o","r","a",".","t","x","P","o","w","e","r",".","b","o","g","u","s">>, <<"v","e","r","s","i","o","n",".","n","a","m","e">>, <<"v","e","r","s","i","o","n",".","b","o","g","u","s">>, <<"l","o","r","a",".",".","l","e","v","e","l">>,
             <<"l","o","r","a",".","l","e","v","e","l",".">>, <<"m","q","t","t",".","m","a","p","_","r","e","p","o","r","t","_","s","e","t","t","i","n","g","s",".","p","u","b","l","i","s","h","_","i","n","t","e","r","v","a","l","_","s","e","c","s",".","z","o","o","m">>},
            {VStr(<<"l","o","n","g","e","n","o","u","g","h">>), VStr(<<"H","I","G","H">>), VInt(5)})

Calls == FoundCalls \cup OtherCalls

NoCall ==
    [op |-> "none", comp_name |-> <<>>, raw_val |-> VNone, name |-> <<>>,
     ret |-> "", out |-> <<>>, pref |-> <<>>, branch |-> "", before |-> DefaultTree]

\* a session with nothing but defaults beside the tree: no owner names, no
\* channel URL, no position, a default moduleConfig
PlainNode ==
    [moduleConfig |-> DefaultTree, owner |-> VNone, owner_short |-> VNone,
     channel_url |-> VNone, position |-> VNone]

NoExport == [n |-> 0, exc |-> "", doc |-> <<>>]

\* InterfaceManager.__init__: no cached interface, no cached hostname.  An
\* interface is named by its place in ifaces, None by 0; the hostname None
\* by NoHostname.
NoHostname == "None"
NoManager == [cached_iface |-> 0, cached_hostname |-> NoHostname, ifaces |-> <<>>]

Init ==
    /\ tree \in InitTrees
    /\ camel_case \in BOOLEAN
    /\ pc = "idle"
    /\ calls = 0
    /\ last = NoCall
    /\ node = PlainNode
    /\ exported = NoExport
    /\ manager = NoManager
    /\ db = <<>>

\* one call setPref(config, comp_name, raw_val)
SetPref(comp_name, raw_val) ==
    /\ pc = "idle"
    /\ calls < MaxCalls
    /\ \E res \in {setPref(tree, camel_case, comp_name, raw_val)} :
       /\ tree' = res.tree
       /\ last' = [op |-> "setPref", comp_name |-> comp_name, raw_val |-> raw_val,
                   name |-> splitCompoundName(comp_name),
                   ret |-> res.ret, out |-> res.out, pref |-> res.pref,
                   branch |-> res.branch, before |-> tree]
    /\ pc' = "called"
    /\ calls' = calls + 1
    /\ UNCHANGED <<camel_case, others>>

\* the caller has taken the result (or caught the exception)
Return ==
    /\ pc = "called"
    /\ pc' = "idle"
    /\ last' = NoCall
    /\ UNCHANGED <<tree, camel_case, calls, others>>

Next ==
    \/ \E c \in Calls : SetPref(c.name, c.raw)
    \/ Return

Spec == Init /\ [][Next]_vars

(***************************************************************************)
(* What the specification says of a compound name, for stating the claims  *)
(***************************************************************************)
HasDot(s) == \E i \in 1..Len(s) : s[i] = "."
NumDots(s) == Len(SelectSeq(s, LAMBDA c : c = "."))

\* every segment in its canonical form
CanonPath(name) == [i \in 1..Len(name) |-> camel_to_snake(name[i])]

\* the name denotes a leaf: its segments but the last name nested messages and
\* the last a field of the innermost, or it is an undotted name of a field
\* that stands directly in the root
SpecResolves(name) ==
    \/ CanonPath(name) \in LeafPaths
    \/ Len(name) = 2 /\ name[1] = name[2] /\ <<camel_to_snake(name[1])>> \in LeafPaths
SpecPath(name) ==
    IF CanonPath(name) \in LeafPaths THEN CanonPath(name) ELSE <<camel_to_snake(name[1])>>

Called == last.op = "setPref"

\* the last call resolved the field its name denotes
ResolvedField ==
    Called /\ SpecResolves(last.name) /\ last.pref = SpecPath(last.name)

\* the leaves other than p are as they were before the last call
OthersUnchanged(p) == \A q \in LeafPaths \ {p} : tree[q] = last.before[q]

(***************************************************************************)
(* C1..C10                                                                 *)
(***************************************************************************)

\* C1: splitCompoundName(name) is the two-element list [name, name] for every
\* name without a '.', and for a name with at least one '.' the list of all
\* its dot-separated segments in order; the result has at least 2 segments.
C1_SplitCompoundName ==
    Called =>
        /\ Len(last.name) >= 2
        /\ IF HasDot(last.comp_name)
           THEN /\ Len(last.name) = NumDots(last.comp_name) + 1
                /\ \A i \in 1..Len(last.name) : ~HasDot(last.name[i])
                /\ Join(last.name, <<".">>) = last.comp_name
           ELSE last.name = <<last.comp_name, last.comp_name>>

\* C1 witness: an undotted name was split into a pair and set its field
C1_Witness ==
    /\ Called /\ last.comp_name = n_version
    /\ last.name = <<n_version, n_version>>
    /\ last.ret = "True"

\* C2: for a path of n >= 2 segments whose segments 0..n-2 name nested
\* messages, setPref writes the value to the leaf of the sub-object reached by
\* descending through them, at every depth (4 segments included).  Stated for
\* the number 5 given to an integer field.
C2_WritesLeafAtEveryDepth ==
    ( /\ Called
      /\ CanonPath(last.name) \in LeafPaths
      /\ <<last.name[1]>> \in Paths
      /\ ~Schema[CanonPath(last.name)].repeated
      /\ Schema[CanonPath(last.name)].kind \in {"uint32", "int32"}
      /\ last.raw_val = VInt(5) )
    => /\ last.ret = "True"
       /\ tree[CanonPath(last.name)] = VInt(5)
       /\ OthersUnchanged(CanonPath(last.name))

\* C3: setPref reports NotFound (returns False, raises nothing, writes
\* nothing) whenever an intermediate segment does not name a message of the
\* schema reached so far or the last segment is absent from the final schema.
C3_NotFound ==
    (Called /\ ~SpecResolves(last.name)) => (last.ret = "False" /\ tree = last.before)

\* C4: resolution does not depend on the casing of any segment, the first
\* included: the call with every segment in camel case and the call with
\* every segment in snake case resolve the same field and leave the same tree.
C4_CasingInsensitive ==
    (Called /\ HasDot(last.comp_name)) =>
        \E a \in {setPref(last.before, camel_case,
                          Join([i \in 1..Len(last.name) |->
                                  snake_to_camel(CanonPath(last.name)[i])], <<".">>),
                          last.raw_val)} :
        \E b \in {setPref(last.before, camel_case,
                          Join(CanonPath(last.name), <<".">>), last.raw_val)} :
            a.ret = b.ret /\ a.pref = b.pref /\ a.tree = b.tree

\* C5: when the resolved field is an enum and the raw value is text naming a
\* symbol of its table, setPref stores the symbol's number and returns True,
\* for every symbol, the one numbered 0 included.
C5_EnumSymbolStored ==
    ( /\ ResolvedField
      /\ Schema[last.pref].kind = "enum" /\ ~Schema[last.pref].repeated
      /\ last.raw_val.k = "str"
      /\ last.raw_val.v \in {EnumValues(Schema[last.pref].enum)[i][1] :
                               i \in 1..Len(EnumValues(Schema[last.pref].enum))} )
    => /\ last.ret = "True"
       /\ \E i \in 1..Len(EnumValues(Schema[last.pref].enum)) :
             /\ EnumValues(Schema[last.pref].enum)[i][1] = last.raw_val.v
             /\ tree[last.pref] = VInt(EnumValues(Schema[last.pref].enum)[i][2])

\* C5 witness: the symbol numbered 0 replaced another number
C5_Witness ==
    /\ ResolvedField /\ last.pref = <<n_lora, n_level>>
    /\ last.raw_val = VStr(<<"L","O","W">>)
    /\ last.ret = "True"
    /\ last.before[last.pref] = VInt(2)
    /\ tree[last.pref] = VInt(0)

\* the symbols of a table, each once, in ascending order
IsSortedListing(names, enum) ==
    /\ Len(names) = Len(EnumValues(enum))
    /\ \A i \in 1..Len(EnumValues(enum)) :
          \E j \in 1..Len(names) : names[j] = EnumValues(enum)[i][1]
    /\ \A j \in 1..(Len(names) - 1) : TextLess(names[j], names[j + 1])

\* C6: when the resolved field is an enum and the raw value is text that is
\* no symbol of its table, setPref returns False, the field keeps its value,
\* and the diagnostic lists every symbol once, ascending.
C6_UnknownSymbolRejected ==
    ( /\ ResolvedField
      /\ Schema[last.pref].kind = "enum" /\ ~Schema[last.pref].repeated
      /\ last.raw_val.k = "str"
      /\ EnumIndex(Schema[last.pref].enum, last.raw_val.v) = 0 )
    => /\ last.ret = "False"
       /\ tree = last.before
       /\ Len(last.out) >= 2
       /\ IsSortedListing([j \in 1..(Len(last.out) - 2) |->
                              SubSeq(last.out[j + 2], 5, Len(last.out[j + 2]))],
                          Schema[last.pref].enum)

\* C7: for a field whose canonical leaf name is wifi_psk, setPref rejects
\* every text shorter than 8 characters (False, field unchanged) and accepts
\* every text of 8 or more, storing exactly that text.
C7_WifiPsk ==
    ( /\ ResolvedField
      /\ FieldName(last.pref) = n_wifi_psk
      /\ last.raw_val.k = "str" )
    => IF Len(last.raw_val.v) < 8
       THEN last.ret = "False" /\ tree = last.before
       ELSE last.ret = "True" /\ tree[last.pref] = VStr(last.raw_val.v)

\* whether every element of a sequence is text the field accepts once parsed
ElementsAccepted(p, xs) ==
    \A i \in 1..Len(xs) :
        /\ xs[i].k = "str"
        /\ ~IsRaise(fromStr(xs[i].v))
        /\ ~IsRaise(CheckScalar(p, fromStr(xs[i].v)))

\* C8: when the resolved field is repeated and the raw value is a sequence,
\* the field's contents become the element-wise coerced sequence (same order,
\* same length, nothing of the previous contents kept), and applying the same
\* sequence again changes nothing.
C8_SequenceReplaces ==
    ( /\ ResolvedField
      /\ Schema[last.pref].repeated
      /\ last.raw_val.k = "list"
      /\ ElementsAccepted(last.pref, last.raw_val.v) )
    => /\ tree[last.pref] = [i \in 1..Len(last.raw_val.v) |->
                               CheckScalar(last.pref, fromStr(last.raw_val.v[i].v))]
       /\ setPref(tree, camel_case, last.comp_name, last.raw_val).tree = tree

\* C9: when the resolved field is repeated and the raw value is a scalar
\* zero, setPref empties the field, whatever it held, and returns True.
C9_ZeroClears ==
    ( /\ ResolvedField
      /\ Schema[last.pref].repeated
      /\ last.raw_val.k # "list"
      /\ ~IsRaise(RawToVal(last.raw_val))
      /\ IsZero(RawToVal(last.raw_val)) )
    => (last.ret = "True" /\ tree[last.pref] = <<>>)

\* C10: when the resolved field is repeated and the raw value is a non-zero
\* scalar the field accepts, the new contents are the previous elements
\* without the sentinels 0, "" and b"", in their order, followed by the
\* coerced new value.
C10_NonZeroAppends ==
    ( /\ ResolvedField
      /\ Schema[last.pref].repeated
      /\ last.raw_val.k # "list"
      /\ ~IsRaise(RawToVal(last.raw_val))
      /\ ~IsZero(RawToVal(last.raw_val))
      /\ ~IsRaise(CheckScalar(last.pref, RawToVal(last.raw_val))) )
    => tree[last.pref] = Append(SelectSeq(last.before[last.pref], NotSentinel),
                                CheckScalar(last.pref, RawToVal(last.raw_val)))

(***************************************************************************)
(* C11..C20                                                                *)
(***************************************************************************)

\* the leaf name in the active naming convention
Rendered(camel, fname) == IF camel THEN snake_to_camel(fname) ELSE fname

\* C11: after a successful assignment to a non-repeated field setPref prints
\* exactly 'Set <prefix><name> to <raw>': <prefix> is the segments before the
\* last joined by '.' and followed by '.' when the leaf is inside a message
\* (empty for a field of the root), <name> the leaf name in the active
\* convention, <raw> the raw value as it was supplied, not the coerced one.
C11_Confirmation ==
    ( /\ ResolvedField
      /\ ~Schema[last.pref].repeated
      /\ last.ret = "True" )
    => last.out =
         << <<"S","e","t"," ">> \o (IF Len(last.pref) > 1
                        THEN Join(SubSeq(last.name, 1, Len(last.name) - 1), <<".">>) \o <<".">>
                        ELSE <<>>)
            \o Rendered(camel_case, FieldName(last.pref))
            \o <<" ","t","o"," ">>
            \o (IF last.raw_val.k = "str" THEN last.raw_val.v ELSE PyStr(last.raw_val)) >>

\* C11 witness: 'network.wifiPsk' set to 'password1' under the camel
\* convention, confirmed with the raw text
C11_Witness ==
    /\ ResolvedField /\ camel_case
    /\ last.comp_name = <<"n","e","t","w","o","r","k",".","w","i","f","i","P","s","k">>
    /\ last.ret = "True"
    /\ tree[<<n_network, n_wifi_psk>>] = VStr(<<"p","a","s","s","w","o","r","d","1">>)
    /\ last.out = << <<"S","e","t"," ","n","e","t","w","o","r","k",".","w","i","f","i","P","s","k"," ","t","o"," ","p","a","s","s","w","o","r","d","1">> >>

(***************************************************************************)
(* traverseConfig(config_root, config, interface_config).  A document node *)
(* (a Python dict) is a sequence of entries [key, val] in the dict's       *)
(* order; val is a Python value, or VDict of the entries of a nested dict. *)
(* The result is the tree after the call, the lines printed, the leaves    *)
(* handed to setPref in order with what setPref returned, and the class of *)
(* the exception that left the call ("" when it returned).                 *)
(***************************************************************************)
VDict(entries) == [k |-> "dict", v |-> entries]
Entry(key, val) == [key |-> key, val |-> val]

\* line 232: pref_name = f"{snake_name}.{pref}"
PrefName(snake_name, pref) == snake_name \o <<".">> \o pref

\* what a traversal has done so far
Traversed(exc, t, out, leaves) == [exc |-> exc, tree |-> t, out |-> out, leaves |-> leaves]

\* line 236: the leaf is handed to setPref; its return value is dropped, an
\* exception it raises leaves the traversal
LeafDone(acc, pref_name, val, res) ==
    Traversed(IF res.ret \in {"True", "False"} THEN "" ELSE res.ret,
              res.tree, acc.out \o res.out,
              Append(acc.leaves, [name |-> pref_name, raw |-> val, ret |-> res.ret,
                                  pref |-> res.pref]))

RECURSIVE TraverseFrom(_, _, _, _, _)

\* after one entry: an exception ends the loop, otherwise the next entry
TraverseNext(snake_name, config, i, camel, done) ==
    IF done.exc # "" THEN done
    ELSE TraverseFrom(snake_name, config, i + 1, camel, done)

\* lines 231-236: for pref in config, from the i-th entry on
TraverseFrom(snake_name, config, i, camel, acc) ==
    IF i > Len(config) THEN acc
    ELSE TraverseNext(snake_name, config, i, camel,
            IF config[i].val.k = "dict"
            THEN TraverseFrom(camel_to_snake(PrefName(snake_name, config[i].key)),
                              config[i].val.v, 1, camel, acc)
            ELSE LeafDone(acc, PrefName(snake_name, config[i].key), config[i].val,
                          setPref(acc.tree, camel, PrefName(snake_name, config[i].key),
                                  config[i].val)))

\* line 238: what the function returns when no exception left it
TraverseReturn(done) == "True"

\* lines 228-238; ret is "True" or the class of the exception
traverseConfig_done(done) ==
    [ret |-> IF done.exc # "" THEN done.exc ELSE TraverseReturn(done),
     tree |-> done.tree, out |-> done.out, leaves |-> done.leaves]

traverseConfig(t, camel, config_root, config) ==
    traverseConfig_done(TraverseFrom(camel_to_snake(config_root), config, 1, camel,
                                     Traversed("", t, <<>>, <<>>)))

(***************************************************************************)
(* Merging: traverseConfig called with a section name and the section's    *)
(* part of a document, on the same tree and naming flag as above.          *)
(***************************************************************************)
\* the number of traverseConfig calls of one run
MaxMerges == 2

Section(config_root, entries) == [config_root |-> config_root, config |-> entries]

\* sections of documents: leaves that are applied, rejected, not found, or
\* raise; nested mappings; keys in both spellings
MergeDocs ==
    { Section(<<"n","e","t","w","o","r","k">>, <<Entry(<<"w","i","f","i","P","s","k">>, VStr(<<"p","a","s","s","w","o","r","d","1">>))>>),
      Section(<<"n","e","t","w","o","r","k">>, <<Entry(<<"w","i","f","i","_","p","s","k">>, VStr(<<"s","h","o","r","t">>))>>),
      Section(<<"l","o","r","a">>, <<>>),
      Section(<<"l","o","r","a">>, <<Entry(<<"l","e","v","e","l">>, VStr(<<"H","I","G","H">>)), Entry(<<"t","x","_","p","o","w","e","r">>, VStr(<<"5">>))>>),
      Section(<<"l","o","r","a">>, <<Entry(<<"l","e","v","e","l">>, VStr(<<"B","O","G","U","S">>)), Entry(<<"t","x","P","o","w","e","r">>, VInt(5))>>),
      Section(<<"l","o","r","a">>, <<Entry(<<"t","x","_","p","o","w","e","r">>, VStr(<<"c">>)), Entry(<<"l","e","v","e","l">>, VStr(<<"H","I","G","H">>))>>),
      Section(<<"l","o","r","a">>, <<Entry(<<"b","o","g","u","s">>, VInt(1)), Entry(<<"l","e","v","e","l">>, VStr(<<"L","O","W">>))>>),
      Section(<<"l","o","r","a">>, <<Entry(<<"i","g","n","o","r","e","I","n","c","o","m","i","n","g">>, VStr(<<"5">>))>>),
      Section(<<"l","o","r","a">>, <<Entry(<<"i","g","n","o","r","e","_","i","n","c","o","m","i","n","g">>, VList(<<VInt(5)>>)), Entry(<<"l","e","v","e","l">>, VStr(<<"M","E","D","I","U","M">>))>>),
      Section(<<"l","o","r","a">>, <<Entry(<<"i","g","n","o","r","e","_","i","n","c","o","m","i","n","g">>, L12), Entry(<<"t","x","_","p","o","w","e","r">>, VInt(7))>>),
      Section(<<"m","q","t","t">>, <<Entry(<<"m","a","p","R","e","p","o","r","t","S","e","t","t","i","n","g","s">>,
                               VDict(<<Entry(<<"p","u","b","l","i","s","h","I","n","t","e","r","v","a","l","S","e","c","s">>, VInt(5))>>)),
                         Entry(<<"t","o","p","i","c","s">>, Lab)>>),
      Section(<<"m","q","t","t">>, <<Entry(<<"m","a","p","_","r","e","p","o","r","t","_","s","e","t","t","i","n","g","s">>,
                               VDict(<<Entry(<<"b","o","g","u","s">>, VInt(5)),
                                       Entry(<<"p","u","b","l","i","s","h","_","i","n","t","e","r","v","a","l","_","s","e","c","s">>, VInt(7))>>)),
                         Entry(<<"t","o","p","i","c","s">>, VStr(<<"c">>))>>),
      Section(<<"m","q","t","t">>, <<Entry(<<"m","a","p","_","r","e","p","o","r","t","_","s","e","t","t","i","n","g","s">>,
                               VDict(<<Entry(<<"a","r","e","a">>, VDict(<<Entry(<<"z","o","o","m">>, VInt(5))>>))>>)),
                         Entry(<<"t","o","p","i","c","s">>, VStr(<<"c">>))>>),
      Section(<<"e","x","t","e","r","n","a","l","N","o","t","i","f","i","c","a","t","i","o","n">>, <<Entry(<<"e","n","a","b","l","e","d">>, VBool(TRUE))>>),
      Section(<<"e","x","t","e","r","n","a","l","_","n","o","t","i","f","i","c","a","t","i","o","n">>, <<Entry(<<"e","n","a","b","l","e","d">>, VStr(<<"t","r","u","e">>))>>),
      Section(<<"b","o","g","u","s">>, <<Entry(<<"e","n","a","b","l","e","d">>, VBool(TRUE))>>) }

\* one call traverseConfig(config_root, config, interface_config)
TraverseConfig(config_root, config) ==
    /\ pc = "idle"
    /\ calls < MaxMerges
    /\ \E res \in {traverseConfig(tree, camel_case, config_root, config)} :
       /\ tree' = res.tree
       /\ last' = [op |-> "traverseConfig", config_root |-> config_root,
                   config |-> config, ret |-> res.ret, out |-> res.out,
                   leaves |-> res.leaves, before |-> tree]
    /\ pc' = "called"
    /\ calls' = calls + 1
    /\ UNCHANGED <<camel_case, others>>

NextMerge ==
    \/ \E d \in MergeDocs : TraverseConfig(d.config_root, d.config)
    \/ Return

SpecMerge == Init /\ [][NextMerge]_vars

Merged == last.op = "traverseConfig"

\* the leaves of a document node, in document order, with their dotted names
RECURSIVE LeavesOf(_, _)
LeavesOf(prefix, config) ==
    IF Len(config) = 0 THEN <<>>
    ELSE (IF config[1].val.k = "dict"
          THEN LeavesOf(PrefName(prefix, config[1].key), config[1].val.v)
          ELSE <<[key |-> PrefName(prefix, config[1].key), raw |-> config[1].val]>>)
         \o LeavesOf(prefix, Tail(config))

\* C12: traverseConfig returns True only if every leaf of the subtree was
\* applied: when setPref rejected a leaf anywhere in it (nested mappings
\* included) the result is not True.
C12_TrueOnlyWithoutRejection ==
    (Merged /\ last.ret = "True") =>
        \A i \in 1..Len(last.leaves) : last.leaves[i].ret = "True"

\* C13: a leaf whose application fails (path not resolved, value rejected,
\* assignment failed) does not stop the merge: every leaf of the document,
\* those after the failing one included, is attempted, and the valid ones
\* are applied.
C13_FailureDoesNotStopMerge ==
    Merged =>
        /\ Len(last.leaves) = Len(LeavesOf(last.config_root, last.config))
        /\ \A i \in 1..Len(last.leaves) :
              /\ last.leaves[i].raw = LeavesOf(last.config_root, last.config)[i].raw
              /\ (last.leaves[i].ret = "True" /\ last.leaves[i].raw.k = "int"
                  /\ ~Schema[last.leaves[i].pref].repeated)
                 => tree[last.leaves[i].pref] = last.leaves[i].raw

(***************************************************************************)
(* ex_config(interface).  MessageToDict gives the populated fields of a    *)
(* message in field order, keyed by their JSON names; the export adds the  *)
(* owner names, the channel URL and the location.  The document is the     *)
(* configObj that is dumped: a sequence of entries in insertion order.     *)
(***************************************************************************)
\* the JSON name of a field: every '_' is dropped and the character after
\* it is capitalised
RECURSIVE JsonFrom(_, _, _)
JsonFrom(s, i, up) ==
    IF i > Len(s) THEN <<>>
    ELSE IF s[i] = "_" THEN JsonFrom(s, i + 1, TRUE)
    ELSE <<IF up THEN UpperCh(s[i]) ELSE s[i]>> \o JsonFrom(s, i + 1, FALSE)
JsonName(fname) == JsonFrom(fname, 1, FALSE)

\* base64.b64encode(bs), as text
B64Char(n) == B64Alphabet[n + 1]
RECURSIVE B64Encode(_)
B64Encode(bs) ==
    IF Len(bs) = 0 THEN <<>>
    ELSE IF Len(bs) = 1
    THEN <<B64Char(bs[1] \div 4), B64Char((bs[1] % 4) * 16), "=", "=">>
    ELSE IF Len(bs) = 2
    THEN <<B64Char(bs[1] \div 4), B64Char((bs[1] % 4) * 16 + (bs[2] \div 16)),
           B64Char((bs[2] % 16) * 4), "=">>
    ELSE <<B64Char(bs[1] \div 4), B64Char((bs[1] % 4) * 16 + (bs[2] \div 16)),
           B64Char((bs[2] % 16) * 4 + (bs[3] \div 64)), B64Char(bs[3] % 64)>>
         \o B64Encode(SubSeq(bs, 4, Len(bs)))

\* the symbol of an enum number, when the table has one
EnumNameOf(enum, x) ==
    IF \E i \in 1..Len(EnumValues(enum)) : EnumValues(enum)[i][2] = x.v
    THEN VStr(EnumValues(enum)[CHOOSE i \in 1..Len(EnumValues(enum)) :
                                   EnumValues(enum)[i][2] = x.v][1])
    ELSE x

\* one value as MessageToDict renders it: a symbol for an enum number, base64
\* text for bytes, the value itself otherwise
JsonScalar(p, x) ==
    IF Schema[p].kind = "enum" THEN EnumNameOf(Schema[p].enum, x)
    ELSE IF Schema[p].kind = "bytes" THEN VStr(B64Encode(x.v))
    ELSE x
JsonValue(p, v) ==
    IF Schema[p].repeated THEN VList([i \in 1..Len(v) |-> JsonScalar(p, v[i])])
    ELSE JsonScalar(p, v)

\* whether a field is listed: a leaf that differs from its default, a message
\* with a listed field (an empty message that was only touched is not kept
\* apart from an untouched one)
Populated(t, p) ==
    \E q \in LeafPaths :
        /\ Len(q) >= Len(p) /\ SubSeq(q, 1, Len(p)) = p
        /\ t[q] # DefaultOf(q)

IsChildOf(q, p) == Len(q) = Len(p) + 1 /\ SubSeq(q, 1, Len(p)) = p

\* MessageToDict(message at path p), from the i-th field of FieldOrder on
RECURSIVE MessageFields(_, _, _)
MessageFields(t, p, i) ==
    IF i > Len(FieldOrder) THEN <<>>
    ELSE (IF IsChildOf(FieldOrder[i], p) /\ Populated(t, FieldOrder[i])
          THEN <<Entry(JsonName(FieldName(FieldOrder[i])),
                       IF Schema[FieldOrder[i]].kind = "message"
                       THEN VDict(MessageFields(t, FieldOrder[i], 1))
                       ELSE JsonValue(FieldOrder[i], t[FieldOrder[i]]))>>
          ELSE <<>>)
         \o MessageFields(t, p, i + 1)
MessageToDict(t) == MessageFields(t, <<>>, 1)

\* dict access
HasKey(entries, key) == \E i \in 1..Len(entries) : entries[i].key = key
Get(entries, key) ==
    IF HasKey(entries, key)
    THEN entries[CHOOSE i \in 1..Len(entries) : entries[i].key = key].val
    ELSE VNone

\* bool(x)
Truthy(x) ==
    CASE x.k = "none" -> FALSE
      [] x.k = "bool" -> x.v
      [] x.k \in {"int", "float"} -> ~PyEq(x, VInt(0))
      [] OTHER -> Len(x.v) > 0

\* a plausible slip: the value is exported as MessageToDict gave it
MarkKey_Unmarked(text) == text

\* lines 374-379: 'base64:' + value
MarkKey(text) == Base64Prefix \o text

\* lines 373-379: the key fields of the security section, marked in place
MarkSecurity(sec) ==
    [i \in 1..Len(sec) |->
        IF sec[i].key \in {<<"p","r","i","v","a","t","e","K","e","y">>, <<"p","u","b","l","i","c","K","e","y">>}
        THEN Entry(sec[i].key, VStr(MarkKey(sec[i].val.v)))
        ELSE IF sec[i].key = <<"a","d","m","i","n","K","e","y">>
        THEN Entry(sec[i].key,
                   VList([j \in 1..Len(sec[i].val.v) |-> VStr(MarkKey(sec[i].val.v[j].v))]))
        ELSE sec[i]]

\* lines 366-379: prefs[...] = config[pref] shares the section's dict with
\* config, so marking prefs[pref] marks config[pref]
MarkedConfig(config) ==
    [i \in 1..Len(config) |->
        IF config[i].key = <<"s","e","c","u","r","i","t","y">> /\ config[i].val.k = "dict"
        THEN Entry(config[i].key, VDict(MarkSecurity(config[i].val.v)))
        ELSE config[i]]

\* lines 365-370: the re-keyed copy, prefs
ConfigPrefs(camel, config) ==
    [i \in 1..Len(config) |->
        Entry(IF camel THEN snake_to_camel(config[i].key) ELSE config[i].key,
              config[i].val)]

\* lines 380-383: what is stored under 'config': config itself in both
\* branches, not prefs
ConfigExported(camel, config, prefs) == config

\* lines 388-391: the sections of module_config that have a length above 0;
\* len() of a number raises
HasNoLen(entries) == \E i \in 1..Len(entries) : entries[i].val.k \in {"int", "bool", "float"}
ModulePrefs(module_config) ==
    SelectSeq(module_config, LAMBDA e : Len(e.val.v) > 0)

\* lines 357-360
LocationOf(lat, lon, alt) ==
    IF Truthy(lat) \/ Truthy(lon)
    THEN <<Entry(<<"l","o","c","a","t","i","o","n">>,
                 VDict(<<Entry(<<"l","a","t">>, IF Truthy(lat) THEN lat ELSE VFloat(FALSE, 0, <<>>)),
                         Entry(<<"l","o","n">>, IF Truthy(lon) THEN lon ELSE VFloat(FALSE, 0, <<>>))>>
                       \o (IF Truthy(alt) THEN <<Entry(<<"a","l","t">>, alt)>> ELSE <<>>)))>>
    ELSE <<>>

\* lines 338-345: lat, lon, alt from the position, None without a position
Coordinate(pos, key) == IF Truthy(pos) THEN Get(pos.v, key) ELSE VNone

\* lines 347-355
OwnerPart(camel, owner, owner_short, channel_url) ==
    (IF Truthy(owner) THEN <<Entry(<<"o","w","n","e","r">>, owner)>> ELSE <<>>)
    \o (IF Truthy(owner_short) THEN <<Entry(<<"o","w","n","e","r","_","s","h","o","r","t">>, owner_short)>> ELSE <<>>)
    \o (IF Truthy(channel_url)
        THEN <<Entry(IF camel THEN <<"c","h","a","n","n","e","l","U","r","l">> ELSE <<"c","h","a","n","n","e","l","_","u","r","l">>, channel_url)>>
        ELSE <<>>)

\* lines 362-383, given MessageToDict(localConfig)
ConfigPart(camel, config) ==
    IF Len(config) > 0
    THEN <<Entry(<<"c","o","n","f","i","g">>,
                 VDict(ConfigExported(camel, MarkedConfig(config),
                                      ConfigPrefs(camel, MarkedConfig(config)))))>>
    ELSE <<>>

\* lines 385-395, given MessageToDict(moduleConfig)
ModulePart(module_config) ==
    IF Len(module_config) > 0
    THEN <<Entry(<<"m","o","d","u","l","e","_","c","o","n","f","i","g">>, VDict(ModulePrefs(module_config)))>>
    ELSE <<>>

\* lines 330-400: the document, or the exception that leaves the function
ex_config_of(camel, n, config, module_config) ==
    IF HasNoLen(module_config) THEN [exc |-> "TypeError", doc |-> <<>>]
    ELSE [exc |-> "",
          doc |-> OwnerPart(camel, n.owner, n.owner_short, n.channel_url)
                  \o LocationOf(Coordinate(n.position, <<"l","a","t","i","t","u","d","e">>),
                                Coordinate(n.position, <<"l","o","n","g","i","t","u","d","e">>),
                                Coordinate(n.position, <<"a","l","t","i","t","u","d","e">>))
                  \o ConfigPart(camel, config)
                  \o ModulePart(module_config)]

ex_config(camel, n, localConfig) ==
    ex_config_of(camel, n, MessageToDict(localConfig), MessageToDict(n.moduleConfig))

(***************************************************************************)
(* Exporting: ex_config called on sessions whose trees, owner names,       *)
(* channel URL and position are drawn from the sets below.                 *)
(***************************************************************************)
\* the number of exports of one run
MaxExports == 2

\* a localConfig with key material
KeyTree ==
    [DeviceTree EXCEPT
        ![<<n_security, n_private_key>>] = VBytes(<<1, 2>>),
        ![<<n_security, n_public_key>>] = VBytes(<<255>>),
        ![<<n_security, n_admin_key>>] = <<VBytes(<<1, 2, 3>>), VBytes(<<97, 98, 99, 100>>)>>,
        ![<<n_version>>] = VInt(0)]

\* a moduleConfig with nested sections
ModuleTree ==
    [DefaultTree EXCEPT
        ![<<n_mqtt, n_topics>>] = <<VStr(<<"a">>)>>,
        ![<<n_mqtt, n_map_report_settings, n_publish_interval_secs>>] = VInt(5),
        ![<<n_external_notification, n_enabled>>] = VBool(TRUE)]

Zero == VFloat(FALSE, 0, <<>>)
Latitudes == {VNone, Zero, VFloat(FALSE, 5, <<"5">>)}
Longitudes == {VNone, Zero, VFloat(TRUE, 7, <<"2", "5">>)}
Altitudes == {VNone, VInt(0), VInt(9)}

\* myinfo.get("position"): None, or a dict with the coordinates it has
PositionOf(lat, lon, alt) ==
    VDict((IF lat = VNone THEN <<>> ELSE <<Entry(<<"l","a","t","i","t","u","d","e">>, lat)>>)
          \o (IF lon = VNone THEN <<>> ELSE <<Entry(<<"l","o","n","g","i","t","u","d","e">>, lon)>>)
          \o (IF alt = VNone THEN <<>> ELSE <<Entry(<<"a","l","t","i","t","u","d","e">>, alt)>>))
Positions ==
    {VNone} \cup {PositionOf(lat, lon, alt) : lat \in Latitudes, lon \in Longitudes,
                                               alt \in Altitudes}

ExportNodes ==
    {[moduleConfig |-> m, owner |-> o[1], owner_short |-> o[2], channel_url |-> o[3],
      position |-> pos] :
        m \in {DefaultTree, ModuleTree, DeviceTree},
        o \in {<<VNone, VNone, VNone>>, <<VStr(<<"A","l">>), VStr(<<"A">>), VStr(<<"u">>)>>},
        pos \in Positions}

InitExport ==
    /\ tree \in {DefaultTree, DeviceTree, KeyTree}
    /\ camel_case \in BOOLEAN
    /\ pc = "idle"
    /\ calls = 0
    /\ last = NoCall
    /\ node \in ExportNodes
    /\ exported = NoExport
    /\ manager = NoManager
    /\ db = <<>>

\* one call ex_config(interface)
ExConfig ==
    /\ pc = "idle"
    /\ exported.n < MaxExports
    /\ \E res \in {ex_config(camel_case, node, tree)} :
       /\ exported' = [n |-> exported.n + 1, exc |-> res.exc, doc |-> res.doc]
       /\ last' = [op |-> "ex_config", ret |-> res.exc, before |-> tree]
    /\ pc' = "called"
    /\ UNCHANGED <<tree, camel_case, calls, node, manager, db>>

NextExport == ExConfig \/ Return

SpecExport == InitExport /\ [][NextExport]_vars

\* merging sections into a default tree, then exporting it
InitRoundTrip ==
    /\ tree = DefaultTree
    /\ camel_case \in BOOLEAN
    /\ pc = "idle"
    /\ calls = 0
    /\ last = NoCall
    /\ node = PlainNode
    /\ exported = NoExport
    /\ manager = NoManager
    /\ db = <<>>

NextRoundTrip ==
    \/ \E d \in MergeDocs : TraverseConfig(d.config_root, d.config)
    \/ ExConfig
    \/ Return

SpecRoundTrip == InitRoundTrip /\ [][NextRoundTrip]_vars

\* an export has produced a document
Exported == exported.n > 0 /\ exported.exc = ""

\* the mapping under a key of a document; empty when the key is absent
Under(entries, key) == IF Get(entries, key).k = "dict" THEN Get(entries, key).v ELSE <<>>

\* every key of a mapping, nested mappings included
RECURSIVE AllKeys(_)
AllKeys(entries) ==
    IF Len(entries) = 0 THEN {}
    ELSE {entries[1].key}
         \cup (IF entries[1].val.k = "dict" THEN AllKeys(entries[1].val.v) ELSE {})
         \cup AllKeys(Tail(entries))

FieldNames == {FieldName(p) : p \in Paths}

\* C14: every key of the exported configuration mapping (under 'config' and
\* 'module_config') is a field name in the active naming convention: camel
\* when the flag is set, canonical snake otherwise, sections and nested
\* fields alike.
C14_KeysInActiveConvention ==
    Exported =>
        \A key \in AllKeys(Under(exported.doc, <<"c","o","n","f","i","g">>))
                   \cup AllKeys(Under(exported.doc, <<"m","o","d","u","l","e","_","c","o","n","f","i","g">>)) :
            \E f \in FieldNames : key = Rendered(camel_case, f)

\* the value exported for a field of the security section, under either
\* spelling of its key; None when the section has no such key
SecurityValue(fname) ==
    IF HasKey(Under(Under(exported.doc, <<"c","o","n","f","i","g">>), n_security), fname)
    THEN Get(Under(Under(exported.doc, <<"c","o","n","f","i","g">>), n_security), fname)
    ELSE Get(Under(Under(exported.doc, <<"c","o","n","f","i","g">>), n_security), snake_to_camel(fname))

\* the text is the marker followed by the base64 of the bytes, marked once
MarkedOnce(x, bytes) ==
    /\ x.k = "str"
    /\ StartsWith(x.v, <<"b","a","s","e","6","4",":">>)
    /\ ~StartsWith(SubSeq(x.v, 8, Len(x.v)), <<"b","a","s","e","6","4",":">>)
    /\ B64Decode(SubSeq(x.v, 8, Len(x.v))) = bytes

\* C15: under either convention, every populated key-material field of the
\* security section (private key, public key, each element of the repeated
\* admin key) is exported as its encoded value behind the marker 'base64:',
\* once, never unmarked; on every export, a second export of the same tree
\* included.
C15_KeysMarked ==
    Exported =>
        /\ \A f \in {n_private_key, n_public_key} :
              tree[<<n_security, f>>] # VBytes(<<>>)
              => MarkedOnce(SecurityValue(f), tree[<<n_security, f>>])
        /\ tree[<<n_security, n_admin_key>>] # <<>>
           => /\ SecurityValue(n_admin_key).k = "list"
              /\ Len(SecurityValue(n_admin_key).v) = Len(tree[<<n_security, n_admin_key>>])
              /\ \A i \in 1..Len(tree[<<n_security, n_admin_key>>]) :
                    MarkedOnce(SecurityValue(n_admin_key).v[i],
                               tree[<<n_security, n_admin_key>>][i])

\* C15 witness: the second export of a tree with key material, under the
\* snake convention
C15_Witness ==
    /\ Exported /\ exported.n = 2 /\ ~camel_case
    /\ tree[<<n_security, n_private_key>>] = VBytes(<<1, 2>>)
    /\ SecurityValue(n_private_key) = VStr(<<"b","a","s","e","6","4",":","A","Q","I","=">>)
    /\ Len(SecurityValue(n_admin_key).v) = 2

Lat == Coordinate(node.position, <<"l","a","t","i","t","u","d","e">>)
Lon == Coordinate(node.position, <<"l","o","n","g","i","t","u","d","e">>)
Alt == Coordinate(node.position, <<"a","l","t","i","t","u","d","e">>)
Location == Under(exported.doc, <<"l","o","c","a","t","i","o","n">>)

\* the contents of an emitted location
LocationFilled ==
    /\ Get(Location, <<"l","a","t">>) = (IF Lat = VNone \/ PyEq(Lat, VInt(0)) THEN Zero ELSE Lat)
    /\ Get(Location, <<"l","o","n">>) = (IF Lon = VNone \/ PyEq(Lon, VInt(0)) THEN Zero ELSE Lon)
    /\ HasKey(Location, <<"a","l","t">>) <=> (Alt # VNone /\ ~PyEq(Alt, VInt(0)))
    /\ HasKey(Location, <<"a","l","t">>) => Get(Location, <<"a","l","t">>) = Alt

\* C16: 'location' is emitted if and only if latitude or longitude
\* is non-null, a coordinate equal to 0 counting as non-null; a missing
\* coordinate is filled with 0, 'alt' is included only when altitude is
\* non-null and non-zero.
C16_LocationIffNonNull ==
    Exported =>
        /\ HasKey(exported.doc, <<"l","o","c","a","t","i","o","n">>) <=> (Lat # VNone \/ Lon # VNone)
        /\ HasKey(exported.doc, <<"l","o","c","a","t","i","o","n">>) => LocationFilled

\* lines 516-519: traverseConfig for every section of a mapping, in order,
\* until an exception leaves the loop
RECURSIVE MergeSections(_, _, _, _)
MergeSectionsNext(camel, sections, i, res) ==
    IF res.ret # "True" THEN [exc |-> res.ret, tree |-> res.tree]
    ELSE MergeSections(res.tree, camel, sections, i + 1)
MergeSections(t, camel, sections, i) ==
    IF i > Len(sections) THEN [exc |-> "", tree |-> t]
    ELSE IF sections[i].val.k # "dict" THEN [exc |-> "TypeError", tree |-> t]
    ELSE MergeSectionsNext(camel, sections, i,
            traverseConfig(t, camel, sections[i].key, sections[i].val.v))

\* C17: round trip: merging a document (without key material) into a
\* default tree T1, exporting T1 and merging the export into a fresh
\* default tree T2 gives T2 equal to T1.
C17_RoundTrip ==
    (last.op = "ex_config" /\ Exported) =>
        \E r \in {MergeSections(DefaultTree, camel_case,
                                Under(exported.doc, <<"c","o","n","f","i","g">>), 1)} :
            r.exc = "" /\ r.tree = tree

(***************************************************************************)
(* The configure tool.  configuration is the loaded YAML document, a dict. *)
(* What the tool asks of the interface is recorded as a log of calls; the  *)
(* node's localConfig is the tree, its moduleConfig node.moduleConfig.     *)
(* getNode(id) is taken to give the node whatever id is bound to.          *)
(***************************************************************************)
Call(name, arg) == [call |-> name, arg |-> arg]

\* float(x or 0) and int(x or 0) for the numbers of a document
PyFloat(x) ==
    IF ~Truthy(x) THEN VFloat(FALSE, 0, <<>>)
    ELSE IF x.k = "int" THEN VFloat(x.v < 0, IF x.v < 0 THEN 0 - x.v ELSE x.v, <<>>)
    ELSE x
PyInt(x) ==
    IF ~Truthy(x) THEN VInt(0)
    ELSE IF x.k = "float" THEN VInt(IF x.v[1] THEN 0 - x.v[2] ELSE x.v[2])
    ELSE x

\* lines 466-494: owner, owner_short, ownerShort, channel_url, channelUrl
OwnerCalls(configuration) ==
    (IF HasKey(configuration, <<"o","w","n","e","r">>)
     THEN <<Call("setOwner", Get(configuration, <<"o","w","n","e","r">>))>> ELSE <<>>)
    \o (IF HasKey(configuration, <<"o","w","n","e","r","_","s","h","o","r","t">>)
        THEN <<Call("setOwnerShort", Get(configuration, <<"o","w","n","e","r","_","s","h","o","r","t">>))>> ELSE <<>>)
    \o (IF HasKey(configuration, <<"o","w","n","e","r","S","h","o","r","t">>)
        THEN <<Call("setOwnerShort", Get(configuration, <<"o","w","n","e","r","S","h","o","r","t">>))>> ELSE <<>>)
    \o (IF HasKey(configuration, <<"c","h","a","n","n","e","l","_","u","r","l">>)
        THEN <<Call("setURL", Get(configuration, <<"c","h","a","n","n","e","l","_","u","r","l">>))>> ELSE <<>>)
    \o (IF HasKey(configuration, <<"c","h","a","n","n","e","l","U","r","l">>)
        THEN <<Call("setURL", Get(configuration, <<"c","h","a","n","n","e","l","U","r","l">>))>> ELSE <<>>)

\* lines 497-512: alt, lat, lon default to 0 and are taken from the location
FixedPosition(location) ==
    Call("setFixedPosition",
         <<IF HasKey(location, <<"l","a","t">>) THEN PyFloat(Get(location, <<"l","a","t">>)) ELSE PyFloat(VNone),
           IF HasKey(location, <<"l","o","n">>) THEN PyFloat(Get(location, <<"l","o","n">>)) ELSE PyFloat(VNone),
           IF HasKey(location, <<"a","l","t">>) THEN PyInt(Get(location, <<"a","l","t">>)) ELSE VInt(0)>>)

\* the state of a run of the tool: the exception that ended it ("" when
\* none), the localConfig, the moduleConfig, the calls so far
Run(exc, t, m, log) == [exc |-> exc, tree |-> t, mod |-> m, log |-> log]

RECURSIVE ConfigureSections(_, _, _, _, _)

\* lines 517-522 (527-534): after traverseConfig returned, writeConfig with
\* the section's canonical name, then the next section
SectionDone(st, camel, which, sections, i, res) ==
    IF res.ret # "True"
    THEN Run(res.ret,
             IF which = "localConfig" THEN res.tree ELSE st.tree,
             IF which = "localConfig" THEN st.mod ELSE res.tree,
             Append(st.log, Call("traverseConfig", <<sections[i].key, which>>)))
    ELSE ConfigureSections(
             Run("",
                 IF which = "localConfig" THEN res.tree ELSE st.tree,
                 IF which = "localConfig" THEN st.mod ELSE res.tree,
                 st.log \o <<Call("traverseConfig", <<sections[i].key, which>>),
                             Call("writeConfig", camel_to_snake(sections[i].key))>>),
             camel, which, sections, i + 1)

\* lines 516-522 (526-534): for section in configuration[...]
ConfigureSections(st, camel, which, sections, i) ==
    IF st.exc # "" \/ i > Len(sections) THEN st
    ELSE SectionDone(st, camel, which, sections, i,
            traverseConfig(IF which = "localConfig" THEN st.tree ELSE st.mod, camel,
                           sections[i].key, sections[i].val.v))

\* line 536
Commit(st) ==
    IF st.exc # "" THEN st
    ELSE Run("", st.tree, st.mod, Append(st.log, Call("commitSettingsTransaction", <<>>)))

\* whether the sections and the commit are reached: they stand inside the
\* branch of the location
SectionsReached(configuration) == HasKey(configuration, <<"l","o","c","a","t","i","o","n">>)

\* lines 496-537
LocationBranch(st, camel, configuration) ==
    IF ~SectionsReached(configuration) THEN st
    ELSE Commit(
           ConfigureSections(
             ConfigureSections(
               Run("", st.tree, st.mod,
                   Append(st.log, FixedPosition(Under(configuration, <<"l","o","c","a","t","i","o","n">>)))),
               camel, "localConfig", Under(configuration, <<"c","o","n","f","i","g">>), 1),
             camel, "moduleConfig", Under(configuration, <<"m","o","d","u","l","e","_","c","o","n","f","i","g">>), 1))

\* lines 541-542: finally: iface.close()
Closed(st) == Run(st.exc, st.tree, st.mod, Append(st.log, Call("close", <<>>)))

\* lines 455-542
configure(t, m, camel, configuration) ==
    Closed(LocationBranch(Run("", t, m, OwnerCalls(configuration)), camel, configuration))

\* the number of calls of the configure tool in one run
MaxConfigures == 1

SomeLocation ==
    VDict(<<Entry(<<"l","a","t">>, VFloat(FALSE, 5, <<"5">>)), Entry(<<"l","o","n">>, VInt(-7)),
            Entry(<<"a","l","t">>, VInt(9))>>)

\* documents: with and without owner and location; config and module_config
\* with sections that are applied, hold a rejected leaf, or a leaf that raises
ConfigParts ==
    { <<>>,
      <<Entry(<<"c","o","n","f","i","g">>, VDict(<<
          Entry(<<"l","o","r","a">>, VDict(<<Entry(<<"l","e","v","e","l">>, VStr(<<"H","I","G","H">>))>>)),
          Entry(<<"n","e","t","w","o","r","k">>, VDict(<<Entry(<<"w","i","f","i","P","s","k">>, VStr(<<"p","a","s","s","w","o","r","d","1">>))>>))>>))>>,
      <<Entry(<<"c","o","n","f","i","g">>, VDict(<<
          Entry(<<"l","o","r","a">>, VDict(<<Entry(<<"l","e","v","e","l">>, VStr(<<"B","O","G","U","S">>)), Entry(<<"t","x","P","o","w","e","r">>, VInt(5))>>))>>))>>,
      <<Entry(<<"c","o","n","f","i","g">>, VDict(<<
          Entry(<<"n","e","t","w","o","r","k">>, VDict(<<Entry(<<"w","i","f","i","_","p","s","k">>, VStr(<<"l","o","n","g","e","n","o","u","g","h">>))>>)),
          Entry(<<"l","o","r","a">>, VDict(<<Entry(<<"t","x","_","p","o","w","e","r">>, VStr(<<"c">>))>>))>>))>> }
ModuleParts ==
    { <<>>,
      <<Entry(<<"m","o","d","u","l","e","_","c","o","n","f","i","g">>, VDict(<<
          Entry(<<"e","x","t","e","r","n","a","l","N","o","t","i","f","i","c","a","t","i","o","n">>, VDict(<<Entry(<<"e","n","a","b","l","e","d">>, VBool(TRUE))>>)),
          Entry(<<"m","q","t","t">>, VDict(<<Entry(<<"t","o","p","i","c","s">>, VStr(<<"c">>))>>))>>))>>,
      <<Entry(<<"m","o","d","u","l","e","_","c","o","n","f","i","g">>, VDict(<<
          Entry(<<"m","q","t","t">>, VDict(<<Entry(<<"m","a","p","R","e","p","o","r","t","S","e","t","t","i","n","g","s">>,
                                       VDict(<<Entry(<<"p","u","b","l","i","s","h","I","n","t","e","r","v","a","l","S","e","c","s">>, VInt(5))>>))>>))>>))>> }
ConfigureDocs ==
    { o \o l \o c \o m :
        o \in {<<>>, <<Entry(<<"o","w","n","e","r">>, VStr(<<"A","l">>)), Entry(<<"o","w","n","e","r","S","h","o","r","t">>, VStr(<<"A">>))>>},
        l \in {<<>>, <<Entry(<<"l","o","c","a","t","i","o","n">>, SomeLocation)>>, <<Entry(<<"l","o","c","a","t","i","o","n">>, VDict(<<>>))>>},
        c \in ConfigParts, m \in ModuleParts }

\* one call of the tool
Configure(configuration) ==
    /\ pc = "idle"
    /\ calls < MaxConfigures
    /\ \E res \in {configure(tree, node.moduleConfig, camel_case, configuration)} :
       /\ tree' = res.tree
       /\ node' = [node EXCEPT !.moduleConfig = res.mod]
       /\ last' = [op |-> "configure", configuration |-> configuration,
                   ret |-> IF res.exc # "" THEN res.exc ELSE "returned",
                   log |-> res.log, before |-> tree]
    /\ pc' = "called"
    /\ calls' = calls + 1
    /\ UNCHANGED <<camel_case, exported, manager, db>>

NextConfigure ==
    \/ \E d \in ConfigureDocs : Configure(d)
    \/ Return

SpecConfigure == Init /\ [][NextConfigure]_vars

Configured == last.op = "configure"

\* what the claim expects of the sections of one mapping
RECURSIVE ExpectedSectionCalls(_, _)
ExpectedSectionCalls(which, sections) ==
    IF Len(sections) = 0 THEN <<>>
    ELSE <<Call("traverseConfig", <<sections[1].key, which>>),
           Call("writeConfig", camel_to_snake(sections[1].key))>>
         \o ExpectedSectionCalls(which, Tail(sections))

\* C18: given a document with a 'config' or 'module_config' section, the
\* tool applies traverseConfig to each section in document order against the
\* node's config and then calls writeConfig for it, and calls
\* commitSettingsTransaction exactly once, after every section was written
\* and before the interface is closed.
C18_SectionsWrittenThenCommit ==
    ( /\ Configured
      /\ HasKey(last.configuration, <<"c","o","n","f","i","g">>) \/ HasKey(last.configuration, <<"m","o","d","u","l","e","_","c","o","n","f","i","g">>) )
    => SelectSeq(last.log, LAMBDA c : c.call \in {"traverseConfig", "writeConfig",
                                                  "commitSettingsTransaction", "close"})
       = ExpectedSectionCalls("localConfig", Under(last.configuration, <<"c","o","n","f","i","g">>))
         \o ExpectedSectionCalls("moduleConfig", Under(last.configuration, <<"m","o","d","u","l","e","_","c","o","n","f","i","g">>))
         \o <<Call("commitSettingsTransaction", <<>>), Call("close", <<>>)>>

(***************************************************************************)
(* The InterfaceManager.  manager.ifaces holds every interface the manager *)
(* created, each with its hostname, its connection type and the number of  *)
(* times close() was called on it.  A call of set_interface is one step:   *)
(* calls follow one another.                                               *)
(***************************************************************************)
Supported == {"tcp", "ble", "serial"}

\* the manager in the middle of a call, and what the call did so far
Work(m, log) == [m |-> m, log |-> log]

ClosePrevious_Kept(w) == w

\* lines 34-35: if self._cached_iface: self._cached_iface.close()
ClosePrevious(w) ==
    IF w.m.cached_iface = 0 THEN w
    ELSE Work([w.m EXCEPT !.ifaces[w.m.cached_iface].closed = @ + 1],
              Append(w.log, Call("close", w.m.cached_iface)))

\* lines 37-47: the constructor of the connection type, which may raise
\* (connects = FALSE); any other type raises ValueError; then the hostname
\* is cached and the interface returned
Created(w, hostname, connection_type, connects) ==
    IF connection_type \notin Supported
    THEN [m |-> w.m, log |-> w.log, exc |-> "ValueError", iface |-> 0]
    ELSE IF ~connects
    THEN [m |-> w.m, log |-> w.log, exc |-> "Exception", iface |-> 0]
    ELSE [m |-> [cached_iface |-> Len(w.m.ifaces) + 1,
                 cached_hostname |-> hostname,
                 ifaces |-> Append(w.m.ifaces,
                                   [hostname |-> hostname,
                                    connection_type |-> connection_type,
                                    closed |-> 0])],
          log |-> Append(w.log, Call("create", Len(w.m.ifaces) + 1)),
          exc |-> "", iface |-> Len(w.m.ifaces) + 1]

\* lines 16-47
set_interface(m, hostname, connection_type, connects) ==
    Created(ClosePrevious(Work(m, <<>>)), hostname, connection_type, connects)

\* lines 49-60
get_interface(m, hostname) ==
    IF hostname = NoHostname \/ hostname = m.cached_hostname
    THEN m.cached_iface
    ELSE 0

\* the number of set_interface calls of one run
MaxInterfaces == 3

Hostnames == {"meshtastic.local", "10.0.0.7"}
ConnectionTypes == Supported \cup {"usb"}

SetInterface(hostname, connection_type, connects) ==
    /\ pc = "idle"
    /\ calls < MaxInterfaces
    /\ \E res \in {set_interface(manager, hostname, connection_type, connects)} :
       /\ manager' = res.m
       /\ last' = [op |-> "set_interface", hostname |-> hostname,
                   connection_type |-> connection_type,
                   ret |-> [exc |-> res.exc, iface |-> res.iface],
                   log |-> res.log, was |-> manager]
    /\ pc' = "called"
    /\ calls' = calls + 1
    /\ UNCHANGED <<tree, camel_case, node, exported, db>>

GetInterface(hostname) ==
    /\ pc = "idle"
    /\ last' = [op |-> "get_interface", hostname |-> hostname,
                ret |-> get_interface(manager, hostname)]
    /\ pc' = "called"
    /\ UNCHANGED <<tree, camel_case, calls, node, exported, manager, db>>

NextManager ==
    \/ \E h \in Hostnames, t \in ConnectionTypes, c \in BOOLEAN : SetInterface(h, t, c)
    \/ \E h \in Hostnames \cup {NoHostname} : GetInterface(h)
    \/ Return

SpecManager == Init /\ [][NextManager]_vars

\* a successful call of set_interface has just returned
InterfaceSet ==
    /\ last.op = "set_interface"
    /\ last.connection_type \in Supported
    /\ last.ret.exc = ""

\* every call of set_interface so far was successful: each one created an
\* interface
AllSuccessful == calls = Len(manager.ifaces)

Unclosed == {i \in 1..Len(manager.ifaces) : manager.ifaces[i].closed = 0}

\* C19: a successful set_interface with a supported connection type closes
\* the previously cached interface, if any, exactly once and before it
\* creates the new one, caches the new interface with its hostname and
\* returns it; after successful calls only, at most one created interface is
\* un-closed, every earlier one was closed exactly once, and get_interface()
\* gives the one created last.
C19_OneOpenInterface ==
    /\ InterfaceSet =>
         /\ last.log = (IF last.was.cached_iface # 0
                        THEN <<Call("close", last.was.cached_iface)>> ELSE <<>>)
                       \o <<Call("create", last.ret.iface)>>
         /\ last.ret.iface = Len(manager.ifaces)
         /\ manager.cached_iface = last.ret.iface
         /\ manager.cached_hostname = last.hostname
         /\ manager.ifaces[last.ret.iface].hostname = last.hostname
         /\ manager.ifaces[last.ret.iface].connection_type = last.connection_type
         /\ \A i \in 1..Len(last.was.ifaces) :
              manager.ifaces[i].closed
                = last.was.ifaces[i].closed + (IF i = last.was.cached_iface THEN 1 ELSE 0)
    /\ AllSuccessful =>
         /\ Unclosed \subseteq {Len(manager.ifaces)}
         /\ \A i \in 1..Len(manager.ifaces) :
              i < Len(manager.ifaces) => manager.ifaces[i].closed = 1
         /\ get_interface(manager, NoHostname) = Len(manager.ifaces)
         /\ (last.op = "get_interface" /\ last.hostname = NoHostname)
              => last.ret = Len(manager.ifaces)

C19_Witness ==
    /\ InterfaceSet
    /\ AllSuccessful
    /\ last.was.cached_iface = 2
    /\ manager.ifaces[2].closed = 1
    /\ manager.cached_iface = 3

(***************************************************************************)
(* The send_text tool.  A character of a text is one element; the ones     *)
(* outside ASCII are named ("e_acute", "euro", "grin") and take 2, 3 and 4 *)
(* bytes in UTF-8.                                                         *)
(***************************************************************************)
\* line 346
MAX_TEXT_SIZE == 192

CharBytes(c) ==
    CASE c = "e_acute" -> 2
      [] c = "euro"    -> 3
      [] c = "grin"    -> 4
      [] OTHER         -> 1

\* utils.utf8len: len(s.encode('utf-8'))
utf8len(s) ==
    Len(s) + Cardinality({i \in 1..Len(s) : CharBytes(s[i]) >= 2})
           + Cardinality({i \in 1..Len(s) : CharBytes(s[i]) >= 3})
           + Cardinality({i \in 1..Len(s) : CharBytes(s[i]) >= 4})

\* char.isspace()
IsSpaceChar(c) == c \in {" ", "\t", "\n", "\r"}

\* lines 365-373
EstimatedChunks(text) == (utf8len(text) \div MAX_TEXT_SIZE) + 1
CounterSize(text) == 4 + Len(NatText(EstimatedChunks(text))) + Len(NatText(EstimatedChunks(text)))
EffectiveMaxSize(text) == MAX_TEXT_SIZE - CounterSize(text)

\* the bytes of the first n characters
LeadingBytes(s, n) == utf8len(SubSeq(s, 1, n))

RECURSIVE FittingBetween(_, _, _, _)
\* the loops of lines 390-398 and 406-414 add the bytes of one character
\* after the other and break at the first that would pass
\* effective_max_size: they go through the longest run of leading
\* characters whose bytes fit.  Its length lies in lo..hi and is found by
\* halving, the bytes of a run growing with its length.
FittingBetween(s, lo, hi, effective_max_size) ==
    IF lo >= hi THEN lo
    ELSE IF LeadingBytes(s, (lo + hi + 1) \div 2) <= effective_max_size
    THEN FittingBetween(s, (lo + hi + 1) \div 2, hi, effective_max_size)
    ELSE FittingBetween(s, lo, ((lo + hi + 1) \div 2) - 1, effective_max_size)

\* lines 406-414: the number of leading characters that fit (a character
\* has at least one byte, so no more than effective_max_size of them)
Fitting(remaining_text, effective_max_size) ==
    FittingBetween(remaining_text, 0,
                   IF Len(remaining_text) < effective_max_size
                   THEN Len(remaining_text)
                   ELSE IF effective_max_size < 0 THEN 0 ELSE effective_max_size,
                   effective_max_size)

\* the places (from 0) of the spaces among the first n characters
SpacesIn(test_chunk, n) == {i - 1 : i \in {j \in 1..n : IsSpaceChar(test_chunk[j])}}

\* lines 390-398: the place (from 0) of the last space among the leading
\* characters that fit in effective_max_size bytes, -1 when there is none
LastSpaceIn(test_chunk, n) ==
    IF SpacesIn(test_chunk, n) = {} THEN -1
    ELSE CHOOSE i \in SpacesIn(test_chunk, n) : \A j \in SpacesIn(test_chunk, n) : j <= i
LastSpace(test_chunk, effective_max_size) ==
    LastSpaceIn(test_chunk, Fitting(test_chunk, effective_max_size))

\* line 384: remaining_text[:min(len(remaining_text), effective_max_size * 2)]
TestChunk(remaining_text, effective_max_size) ==
    SubSeq(remaining_text, 1,
           IF Len(remaining_text) < effective_max_size * 2
           THEN Len(remaining_text) ELSE effective_max_size * 2)

RECURSIVE ChunksOf(_, _, _)

\* lines 403-421: no word boundary, character by character
ChunkByCharacter(remaining_text, effective_max_size, chunks, n) ==
    IF n = 0
    THEN [exc |-> "Error: Cannot chunk message", chunks |-> chunks]
    ELSE ChunksOf(SubSeq(remaining_text, n + 1, Len(remaining_text)), effective_max_size,
                  Append(chunks, SubSeq(remaining_text, 1, n)))

\* a variant that leaves the space of the word boundary out of the chunk
ChunkAt_SpaceDropped(remaining_text, effective_max_size, chunks, last_space_idx) ==
    IF last_space_idx > 0
    THEN ChunksOf(SubSeq(remaining_text, last_space_idx + 2, Len(remaining_text)),
                  effective_max_size,
                  Append(chunks, SubSeq(remaining_text, 1, last_space_idx)))
    ELSE ChunkByCharacter(remaining_text, effective_max_size, chunks,
                          Fitting(remaining_text, effective_max_size))

\* lines 400-424: break after the last space when there is one past the
\* first character
ChunkAt(remaining_text, effective_max_size, chunks, last_space_idx) ==
    IF last_space_idx > 0
    THEN ChunksOf(SubSeq(remaining_text, last_space_idx + 2, Len(remaining_text)),
                  effective_max_size,
                  Append(chunks, SubSeq(remaining_text, 1, last_space_idx + 1)))
    ELSE ChunkByCharacter(remaining_text, effective_max_size, chunks,
                          Fitting(remaining_text, effective_max_size))

\* lines 378-424: while remaining_text
ChunksOf(remaining_text, effective_max_size, chunks) ==
    IF remaining_text = <<>> THEN [exc |-> "", chunks |-> chunks]
    ELSE ChunkAt(remaining_text, effective_max_size, chunks,
                 LastSpace(TestChunk(remaining_text, effective_max_size),
                           effective_max_size))

\* line 431: the counter before a chunk
Prefix(i, total_chunks) ==
    <<"[">> \o NatText(i) \o <<"/">> \o NatText(total_chunks) \o <<"]", " ">>

\* lines 427-432
FinalChunks(res) ==
    IF res.exc # "" THEN <<>>
    ELSE [i \in 1..Len(res.chunks) |-> Prefix(i, Len(res.chunks)) \o res.chunks[i]]

\* lines 348-450: the messages passed to sendText, in order
send_text(text) ==
    IF utf8len(text) <= MAX_TEXT_SIZE THEN <<text>>
    ELSE FinalChunks(ChunksOf(text, EffectiveMaxSize(text), <<>>))

\* the number of send_text calls of one run
MaxSends == 1

Xs(n) == [i \in 1..n |-> "X"]
Repeated_(pattern, k) ==
    [i \in 1..(k * Len(pattern)) |-> pattern[((i - 1) % Len(pattern)) + 1]]

\* texts of one chunk, of a few chunks, and around the lengths where the
\* number of chunks gets a second digit; with and without spaces, in ASCII
\* and in characters of several bytes
SendTexts ==
    {Xs(n) : n \in {1, 192, 193, 300, 384, 1535, 1674, 1675, 1727}}
    \cup {Repeated_(<<"a", " ">> \o Xs(w), k) : w \in {100, 186, 190}, k \in 1..5}
    \cup {Repeated_(<<"euro">>, n) : n \in {64, 65, 200, 560}}
    \cup {Repeated_(<<"grin", "e_acute">>, n) : n \in {32, 33, 100}}
    \cup {Repeated_(Xs(9) \o <<" ">>, k) : k \in {20, 100, 170}}

SendText(text) ==
    /\ pc = "idle"
    /\ calls < MaxSends
    /\ last' = [op |-> "send_text", text |-> text, sent |-> send_text(text)]
    /\ pc' = "called"
    /\ calls' = calls + 1
    /\ UNCHANGED <<tree, camel_case, node, exported, manager, db>>

NextSend ==
    \/ \E text \in SendTexts : SendText(text)
    \/ Return

SpecSend == Init /\ [][NextSend]_vars

\* C20: for a text of more than 192 bytes of UTF-8, every message passed to
\* sendText, its "[i/n] " prefix counted, has at most 192 bytes of UTF-8,
\* whatever the number of chunks.
C20_ChunksWithinLimit ==
    (last.op = "send_text" /\ utf8len(last.text) > MAX_TEXT_SIZE)
    => \A i \in 1..Len(last.sent) : utf8len(last.sent[i]) <= MAX_TEXT_SIZE

(***************************************************************************)
(* The registered mesh and device tools as runs over one interface: the    *)
(* constructor call, the device calls of the body, the except clause when  *)
(* the tool has one, the finally clause.  The device is an input: which of *)
(* the device calls of the invocation raise.                               *)
(***************************************************************************)
\* the tools whose try statement has no except clause: an exception of the
\* body leaves the tool (mesh.py 19-87, device.py 405-542)
Propagating ==
    {"get_long_name", "get_short_name", "get_my_node_info", "get_my_user",
     "get_public_key", "get_info", "get_support_info", "export_config", "configure"}

\* the tools that turn an exception of the body into an error result
\* (mesh.py 89-329, 453-472)
Catching ==
    {"send_alert", "send_data", "send_heartbeat", "show_info", "show_nodes",
     "send_waypoint", "delete_waypoint", "send_position", "send_telemetry",
     "send_traceroute"}

ToolNames == Propagating \cup Catching \cup {"send_text"}

\* which device calls raise: none, the first, every one
DeviceModes == {"ok", "first", "all"}
Fails(device, i) == device = "all" \/ (device = "first" /\ i = 1)

\* a text has an encoding in UTF-8 unless it holds a lone surrogate, for
\* which s.encode('utf-8') raises UnicodeEncodeError
Encodable(text) == \A i \in 1..Len(text) : text[i] # "surrogate"

Opened == <<Call("open", "meshtastic.local")>>
Outcome(log, ret, results) == [log |-> log, ret |-> ret, results |-> results]

\* a tool of one device call: iface = TCPInterface(...); try: the call;
\* [except Exception: an error result;] finally: iface.close()
ToolRun(name, device) ==
    Outcome(Opened \o <<Call("device", name), Call("close", <<>>)>>,
            IF ~Fails(device, 1) THEN "returned"
            ELSE IF name \in Catching THEN "error result" ELSE "raised",
            <<>>)

\* mesh.py 434-447: every chunk is passed to sendText inside its own try
SendResults(messages, device) ==
    [i \in 1..Len(messages) |->
        IF Fails(device, i) THEN "Error sending chunk" ELSE "Sent chunk"]

\* mesh.py 360-451: the chunked branch
SendChunked(res, device) ==
    IF res.exc # ""
    THEN Outcome(Opened \o <<Call("close", <<>>)>>, "error result", <<>>)
    ELSE Outcome(Opened
                 \o [i \in 1..Len(res.chunks) |-> Call("sendText", FinalChunks(res)[i])]
                 \o <<Call("close", <<>>)>>,
                 "returned", SendResults(res.chunks, device))

\* mesh.py 348-451: the interface is made, then utf8len(text) is taken
\* before any try statement is entered, then one of the two branches runs
SendTextRun(text, device) ==
    IF ~Encodable(text) THEN Outcome(Opened, "raised", <<>>)
    ELSE IF utf8len(text) <= MAX_TEXT_SIZE
    THEN Outcome(Opened \o <<Call("sendText", text), Call("close", <<>>)>>,
                 IF Fails(device, 1) THEN "error result" ELSE "returned", <<>>)
    ELSE SendChunked(ChunksOf(text, EffectiveMaxSize(text), <<>>), device)

\* the number of tool invocations of one run
MaxInvocations == 1

ToolTexts == SendTexts \cup {<<"surrogate">>, Xs(200) \o <<"surrogate">>}

Invoke(name, text, device) ==
    /\ pc = "idle"
    /\ calls < MaxInvocations
    /\ IF name = "send_text" THEN text \in ToolTexts ELSE text = <<>>
    /\ \E res \in {IF name = "send_text" THEN SendTextRun(text, device)
                   ELSE ToolRun(name, device)} :
         last' = [op |-> "tool", name |-> name, text |-> text, device |-> device,
                  log |-> res.log, ret |-> res.ret, results |-> res.results]
    /\ pc' = "called"
    /\ calls' = calls + 1
    /\ UNCHANGED <<tree, camel_case, node, exported, manager, db>>

NextTools ==
    \/ \E name \in ToolNames, text \in ToolTexts \cup {<<>>}, device \in DeviceModes :
         Invoke(name, text, device)
    \/ Return

SpecTools == Init /\ [][NextTools]_vars

Invoked == last.op = "tool"

\* C21: every registered mesh or device tool that opens an interface closes
\* it exactly once before the invocation ends, on every path: normal return,
\* error result, exception.
C21_ClosedExactlyOnce ==
    Invoked =>
       /\ Len(SelectSeq(last.log, LAMBDA c : c.call = "close")) = 1
       /\ last.log[Len(last.log)].call = "close"
       /\ last.log[1].call = "open"

(***************************************************************************)
(* save_json_objects and the nodes table.  db holds the rows of the table  *)
(* in the order of their insertion; a row keeps the id, the long_name and  *)
(* the created time.  The time of the clock is an input of the call.       *)
(***************************************************************************)
\* line 192-193: SELECT created FROM nodes WHERE id = ?  (fetchone)
Existing(rows, node_id) == SelectSeq(rows, LAMBDA r : r.id = node_id)

CreatedTimestamp_Now(existing, current_time) == current_time

\* lines 196-197: existing[0] if existing else current_time
CreatedTimestamp(existing, current_time) ==
    IF existing # <<>> THEN existing[1].created ELSE current_time

\* lines 199-213: INSERT OR REPLACE on the primary key id: the row of the
\* same id is deleted and the new row inserted
InsertOrReplace(rows, row) ==
    Append(SelectSeq(rows, LAMBDA r : r.id # row.id), row)

RECURSIVE SaveNodes(_, _, _, _)
\* lines 149-213: for node_id, node_data in data["Nodes"].items()
SaveNodes(rows, nodes, i, current_time) ==
    IF i > Len(nodes) THEN rows
    ELSE SaveNodes(
           InsertOrReplace(rows,
              [id |-> nodes[i].key, long_name |-> nodes[i].val,
               created |-> CreatedTimestamp(Existing(rows, nodes[i].key), current_time)]),
           nodes, i + 1, current_time)

\* lines 77-216, the nodes of the data
save_json_objects(rows, nodes, current_time) == SaveNodes(rows, nodes, 1, current_time)

\* the number of save_json_objects calls of one run
MaxSaves == 3

NodeIds == {"!12345678", "!9abcdef0"}
LongNames == {"Original Name", "Updated Name"}
Times == 1..3

\* the "Nodes" of a data: a dict, so no id twice
NodeData ==
    {<<>>}
    \cup {<<Entry(i, n)>> : i \in NodeIds, n \in LongNames}
    \cup {d \in {<<Entry(i, n), Entry(j, m)>> :
                    i \in NodeIds, j \in NodeIds, n \in LongNames, m \in LongNames} :
            d[1].key # d[2].key}

SaveJsonObjects(nodes, current_time) ==
    /\ pc = "idle"
    /\ calls < MaxSaves
    /\ db' = save_json_objects(db, nodes, current_time)
    /\ last' = [op |-> "save_json_objects", nodes |-> nodes,
                current_time |-> current_time, was |-> db]
    /\ pc' = "called"
    /\ calls' = calls + 1
    /\ UNCHANGED <<tree, camel_case, node, exported, manager>>

NextSave ==
    \/ \E nodes \in NodeData, t \in Times : SaveJsonObjects(nodes, t)
    \/ Return

SpecSave == Init /\ [][NextSave]_vars

SavedIds(nodes) == {nodes[i].key : i \in 1..Len(nodes)}
RowIds(rows) == {rows[i].id : i \in 1..Len(rows)}

\* C22: a save keeps the created value of every row that was there, gives a
\* node saved for the first time the time of that save, replaces the
\* long_name of the nodes it holds, and there is one row per node id.
C22_CreatedPreserved ==
    /\ \A i \in 1..Len(db) : \A j \in 1..Len(db) : db[i].id = db[j].id => i = j
    /\ last.op = "save_json_objects" =>
         /\ RowIds(db) = RowIds(last.was) \cup SavedIds(last.nodes)
         /\ \A i \in 1..Len(db) :
              /\ \A j \in 1..Len(last.was) :
                   last.was[j].id = db[i].id => db[i].created = last.was[j].created
              /\ db[i].id \notin RowIds(last.was) => db[i].created = last.current_time
              /\ \A k \in 1..Len(last.nodes) :
                   last.nodes[k].key = db[i].id => db[i].long_name = last.nodes[k].val
              /\ db[i].id \notin SavedIds(last.nodes) =>
                   \E j \in 1..Len(last.was) : last.was[j] = db[i]

C22_Witness ==
    /\ last.op = "save_json_objects"
    /\ \E i \in 1..Len(db) : \E j \in 1..Len(last.was) :
         /\ db[i].id = last.was[j].id
         /\ db[i].long_name # last.was[j].long_name
         /\ db[i].created = last.was[j].created
         /\ db[i].created # last.current_time
    /\ Len(db) = 2

(***************************************************************************)
(* C21..C30, setPref                                                       *)
(***************************************************************************)
\* the last call resolved a non-repeated field, went past the checks, and
\* the field's setter refuses the type of the best-guess value
FirstAssignmentFails ==
    /\ ResolvedField
    /\ ~Schema[last.pref].repeated
    /\ last.ret # "False"
    /\ IsRaise(CheckScalar(last.pref, RawToVal(last.raw_val)))
    /\ CheckScalar(last.pref, RawToVal(last.raw_val)).v = "TypeError"

\* the verbatim string form of the raw value
Verbatim(raw_val) == VStr(PyStr(raw_val))

\* C23: when the first, best-guess-typed assignment of a non-repeated field
\* fails structurally, setPref assigns the verbatim string form of the raw
\* value to the same field: the stored text is the raw text character for
\* character, for a leaf of a nested message and for a field directly in
\* the container; the failure surfaces only if the field refuses the text
\* too.
C23_RetryStoresVerbatim ==
    FirstAssignmentFails =>
       IF IsRaise(CheckScalar(last.pref, Verbatim(last.raw_val)))
       THEN last.ret \notin {"True", "False"} /\ tree = last.before
       ELSE /\ last.ret = "True"
            /\ tree[last.pref] = CheckScalar(last.pref, Verbatim(last.raw_val))
            /\ OthersUnchanged(last.pref)

(***************************************************************************)
(* C24, traverseConfig                                                     *)
(***************************************************************************)
RECURSIVE CanonLeaves(_, _)
\* the leaves of a document in document order, each with the compound name
\* made of the prefix and the canonical forms of the keys on its path
CanonLeaves(prefix, config) ==
    IF Len(config) = 0 THEN <<>>
    ELSE (IF config[1].val.k = "dict"
          THEN CanonLeaves(PrefName(prefix, camel_to_snake(config[1].key)), config[1].val.v)
          ELSE <<[name |-> PrefName(prefix, camel_to_snake(config[1].key)),
                  raw |-> config[1].val]>>)
         \o CanonLeaves(prefix, Tail(config))

\* the setPref calls of the last traversal: compound name and raw value
SetPrefCalls ==
    [i \in 1..Len(last.leaves) |-> [name |-> last.leaves[i].name, raw |-> last.leaves[i].raw]]

\* C24: traverseConfig calls setPref exactly once for every leaf of the
\* document and never for a nested mapping, with the compound name made of
\* the canonical root and the canonical forms of all keys on the path from
\* the document root to the leaf, joined by '.'.
C24_OneCallPerLeaf ==
    Merged => SetPrefCalls = CanonLeaves(camel_to_snake(last.config_root), last.config)

(***************************************************************************)
(* C25..C28, setPref                                                       *)
(***************************************************************************)
\* C25: whenever setPref returns False the ConfigTree is exactly as it was
\* before the call.
C25_FalseChangesNothing ==
    (Called /\ last.ret = "False") => tree = last.before

C25_Witness ==
    /\ Called /\ last.ret = "False"
    /\ last.before # DefaultTree
    /\ last.pref # <<>>
    /\ Schema[last.pref].kind = "enum"

\* the leaves whose value the last call changed
Changed == {p \in LeafPaths : tree[p] # last.before[p]}

\* C26: in every successful setPref call the field written is the field
\* whose descriptor was resolved and used for validation; no path, a
\* two-segment path whose first segment names a non-message field included,
\* validates against one field and assigns to a differently named one.
C26_WritesValidatedField ==
    (Called /\ last.ret = "True" /\ last.pref # <<>>) =>
        \A p \in Changed : FieldName(p) = FieldName(last.pref)

\* C27: a successful setPref call changes the resolved leaf and no other
\* field of the ConfigTree, at any depth, on the scalar, sequence-replace,
\* clear and append paths.
C27_OnlyResolvedLeafChanges ==
    (Called /\ last.ret = "True") => Changed \subseteq {last.pref}

\* every non-repeated enum field of a tree holds a code of its table
EnumsInTable(t) ==
    \A p \in LeafPaths :
        (Schema[p].kind = "enum" /\ ~Schema[p].repeated)
        => t[p].k = "int" /\ t[p].v \in EnumNumbers(Schema[p].enum)

\* C28: setPref calls with textual raw values keep every non-repeated enum
\* field at a code of its EnumTable: a text is mapped to a table code or
\* rejected, so '7', a number outside the table, is never stored.
C28_EnumCodesInTable ==
    (Called /\ last.raw_val.k = "str" /\ EnumsInTable(last.before)) => EnumsInTable(tree)

(***************************************************************************)
(* C29, InterfaceManager                                                   *)
(***************************************************************************)
\* a call of set_interface has just raised
InterfaceFailed == last.op = "set_interface" /\ last.ret.exc # ""

\* C29: after any sequence of set_interface calls, those that fail on an
\* unsupported connection type or a raising constructor included,
\* get_interface never returns an interface the manager has closed, and a
\* failed set_interface leaves the cached interface and the cached hostname
\* as they were.
C29_NeverReturnsClosed ==
    /\ \A h \in Hostnames \cup {NoHostname} :
         get_interface(manager, h) # 0
         => manager.ifaces[get_interface(manager, h)].closed = 0
    /\ (last.op = "get_interface" /\ last.ret # 0) => manager.ifaces[last.ret].closed = 0
    /\ InterfaceFailed =>
         /\ manager.cached_iface = last.was.cached_iface
         /\ manager.cached_hostname = last.was.cached_hostname

(***************************************************************************)
(* C30, send_text                                                          *)
(***************************************************************************)
\* the messages the last invocation passed to sendText, in order
SentMessages ==
    [i \in 1..Len(SelectSeq(last.log, LAMBDA c : c.call = "sendText")) |->
        SelectSeq(last.log, LAMBDA c : c.call = "sendText")[i].arg]

\* a message without its counter
Content(message, i, n) == SubSeq(message, Len(Prefix(i, n)) + 1, Len(message))

LongTextSent ==
    /\ Invoked /\ last.name = "send_text"
    /\ Encodable(last.text)
    /\ utf8len(last.text) > MAX_TEXT_SIZE

\* C30: for a text of more than 192 bytes the chunking ends, the chunks are
\* sent in order with the prefixes '[1/n] ' .. '[n/n] ', n the real number
\* of chunks; the contents, prefixes removed, put together in the order of
\* sending are the text, no character lost, doubled or split; a send that
\* fails does not keep the later chunks from being sent.
C30_ChunksCoverText ==
    LongTextSent =>
       /\ last.ret = "returned"
       /\ Len(SentMessages) >= 2
       /\ Len(last.results) = Len(SentMessages)
       /\ \A i \in 1..Len(SentMessages) :
            /\ StartsWith(SentMessages[i], Prefix(i, Len(SentMessages)))
            /\ Len(Content(SentMessages[i], i, Len(SentMessages))) > 0
            /\ last.results[i] = (IF Fails(last.device, i)
                                  THEN "Error sending chunk" ELSE "Sent chunk")
       /\ Concat([i \in 1..Len(SentMessages) |->
                    Content(SentMessages[i], i, Len(SentMessages))]) = last.text

C30_Witness ==
    /\ LongTextSent
    /\ last.device = "first"
    /\ Len(SentMessages) >= 10
    /\ last.results[1] = "Error sending chunk"
    /\ last.results[10] = "Sent chunk"
    /\ \E i \in 1..Len(last.text) : last.text[i] = " "

====
